---------------------------- MODULE Spec2Model ----------------------------
(***************************************************************************)
(* Taxi ride-sharing simulation (mioopoi/TaxiRidesharingSimulation).       *)
(*                                                                         *)
(* The model follows Simulation.run timestep by timestep: arrivals are     *)
(* ingested, failed queries are drained, the work queue is processed       *)
(* (Dispatcher.dispatch_taxi), query statuses are updated and every taxi   *)
(* drives one step (Taxi.drive).  The road network, the geohash grid and   *)
(* the grid distance matrix are built by the same procedures as the code   *)
(* builds them, on a small road network lying on one meridian: all         *)
(* locations share one longitude, so the great-circle distance of two      *)
(* locations is the difference of their latitudes (1 latitude unit = 1 m)  *)
(* and a bearing is either north or south.                                 *)
(***************************************************************************)
EXTENDS Integers, Sequences, FiniteSets, TLC

\* ------------------------------------------------------------------------
\* Bounds of the model
\* ------------------------------------------------------------------------
NumQueries == 3        \* number of lines of the query files
SimSeconds == 7        \* END_TIME - START_TIME, in seconds
PATIENCE == 3          \* size of the pickup window (300 in constants.py)
NUM_TAXI == 2          \* number of taxis asked of gen_taxi (2980 in constants.py)
MaxLat == 127          \* largest latitude of an endpoint given to map_match
MaxVid == 2          \* largest vertex id given to add_vertex and add_edge
MaxEid == 2          \* largest edge id given to add_edge
MaxCalls == 3        \* number of add_vertex and add_edge calls on one RoadNetwork
MaxEdges == 3        \* largest number of lines of the edges file of a searched network
MaxDropped == 2      \* largest number of lines of edges.csv that an indexed network lacks
MaxSteps == 6         \* motion steps of a taxi driving on doubles
MaxPrecision == 5    \* largest precision given to geo_encode

\* ------------------------------------------------------------------------
\* constants.py
\* ------------------------------------------------------------------------
MAX_INT == 1061109567
PRECISION == 5
AVERAGE_SPEED == 7
TAXI_CAPACITY == 1
TIME_STEP == 1
WAITING == "waiting"
CANCELLED == "cancelled"
RIDING == "riding"
SATISFIED == "satisfied"

\* Python's None where an id (taxi, vertex, edge) is expected: ids are >= 1.
None == 0
\* float('inf')
inf == 1000000

\* START_TIME and END_TIME as <<hours, minutes, seconds>>.  constants.py runs
\* from "09:00:00" to "09:30:00"; the model runs SimSeconds seconds
\* from "00:00:00".
START_TIME == <<0, 0, 0>>
END_TIME == <<0, 0, SimSeconds>>

sim_time_convert(time_str) ==
    (time_str[1] * 3600 + time_str[2] * 60 + time_str[3]) + 1

SIM_START_TIME == sim_time_convert(START_TIME)
SIM_END_TIME == sim_time_convert(END_TIME)

\* ------------------------------------------------------------------------
\* Helpers for Python containers
\* ------------------------------------------------------------------------
Abs(x) == IF x < 0 THEN -x ELSE x

SetMin(S) == CHOOSE x \in S : \A y \in S : x <= y

\* Iteration order of a dict or set of small ints (CPython 2: ascending).
KeysInOrder(S) ==
    [i \in 1..Cardinality(S) |->
        CHOOSE x \in S : Cardinality({y \in S : y < x}) = i - 1]

Range(s) == {s[i] : i \in DOMAIN s}

RECURSIVE IndexOf(_, _, _)
IndexOf(s, x, i) ==
    IF i > Len(s) THEN 0
    ELSE IF s[i] = x THEN i ELSE IndexOf(s, x, i + 1)

RemoveAt(s, i) == SubSeq(s, 1, i - 1) \o SubSeq(s, i + 1, Len(s))

\* ------------------------------------------------------------------------
\* geohash.py
\* ------------------------------------------------------------------------
BASE32 == <<"0", "1", "2", "3", "4", "5", "6", "7", "8", "9", "b", "c", "d",
            "e", "f", "g", "h", "j", "k", "m", "n", "p", "q", "r", "s", "t",
            "u", "v", "w", "x", "y", "z">>

\* The intervals [-90, 90] and [-180, 180] in units of 180/65536 degrees, so
\* that every midpoint of the 25 bisections of geo_encode is an integer.
lat_interval0 == <<-32768, 32768>>
lon_interval0 == <<-65536, 65536>>

\* The number of bisections of the longitude (odd i) and of the latitude
\* (even i) among the bits 1..length.
lon_bits(length) == (length + 1) \div 2
lat_bits(length) == length \div 2

\* The bisection "if x > mid: 1, upper half, else: 0, lower half", repeated n
\* times from the interval iv, ends in the k-th of the 2^n equal parts
\* (iv[1] + k * w, iv[1] + (k + 1) * w], w the width of a part; a value not
\* above iv[1] ends in part 0 and a value above iv[2] in the last part.
part_index(x, iv, n) ==
    LET w == (iv[2] - iv[1]) \div (2 ^ n)
        k == (x - iv[1] - 1) \div w
    IN  IF x <= iv[1] THEN 0
        ELSE IF k > 2 ^ n - 1 THEN 2 ^ n - 1 ELSE k

\* Bit i (1..length) that the loop of geo_encode computes, from the part
\* indices of the two coordinates: their bits, most significant first,
\* longitude (odd i) and latitude (even i) interleaved.
geo_bit(i, length, lat_part, lon_part) ==
    IF i % 2 # 0
    THEN (lon_part \div (2 ^ (lon_bits(length) - (i + 1) \div 2))) % 2
    ELSE (lat_part \div (2 ^ (lat_bits(length) - i \div 2))) % 2

\* geo_encode: one BASE32 character for every five bits.
geo_encode(lat, lon, precision) ==
    LET length == precision * 5
        lat_part == part_index(lat, lat_interval0, lat_bits(length))
        lon_part == part_index(lon, lon_interval0, lon_bits(length))
    IN  [c \in 1..precision |->
            BASE32[geo_bit(5 * c - 4, length, lat_part, lon_part) * 16
                   + geo_bit(5 * c - 3, length, lat_part, lon_part) * 8
                   + geo_bit(5 * c - 2, length, lat_part, lon_part) * 4
                   + geo_bit(5 * c - 1, length, lat_part, lon_part) * 2
                   + geo_bit(5 * c, length, lat_part, lon_part) + 1]]

\* BASE32.index(char) of geo_decode.
base32_index(char) == (CHOOSE i \in 1..32 : BASE32[i] = char) - 1

\* Bit i (1..5 * len) of a geohash: (bits >> j) & 1 of its character.
hash_bit(geohash, i) ==
    (base32_index(geohash[(i - 1) \div 5 + 1]) \div (2 ^ (4 - ((i - 1) % 5)))) % 2

\* The part index the bits of one coordinate spell (odd bits: longitude).
hash_part(geohash, is_lon) ==
    LET length == 5 * Len(geohash)
        n == IF is_lon THEN lon_bits(length) ELSE lat_bits(length)
    IN  CHOOSE k \in 0..(2 ^ n - 1) :
            \A b \in 1..n :
                (k \div (2 ^ (n - b))) % 2
                    = hash_bit(geohash, IF is_lon THEN 2 * b - 1 ELSE 2 * b)

\* A faulty variant of geo_decode: the lower corner of the cell.
geo_decode2_corner(geohash) ==
    LET length == 5 * Len(geohash)
        w_lat == (lat_interval0[2] - lat_interval0[1]) \div (2 ^ lat_bits(length))
        w_lon == (lon_interval0[2] - lon_interval0[1]) \div (2 ^ lon_bits(length))
    IN  <<2 * lat_interval0[1] + 2 * hash_part(geohash, FALSE) * w_lat,
          2 * lon_interval0[1] + 2 * hash_part(geohash, TRUE) * w_lon>>

\* geo_decode returns the centre [lat, lon] of the cell, the middle of the
\* intervals its loop ends with; the model returns twice the centre,
\* <<2 * lat, 2 * lon>>, an integer.
geo_decode2(geohash) ==
    LET length == 5 * Len(geohash)
        w_lat == (lat_interval0[2] - lat_interval0[1]) \div (2 ^ lat_bits(length))
        w_lon == (lon_interval0[2] - lon_interval0[1]) \div (2 ^ lon_bits(length))
    IN  <<2 * lat_interval0[1] + (2 * hash_part(geohash, FALSE) + 1) * w_lat,
          2 * lon_interval0[1] + (2 * hash_part(geohash, TRUE) + 1) * w_lon>>

\* The doubles of [128, 256) lie 2^-45 apart.  The first 48 bisections of
\* [-180.0, 180.0] have midpoints that are multiples of 45 * 2^-45 and are
\* exact; the bisections after them round.  The longitudes of the two cells
\* of 48 bisections below 180.0 are counted in units of 2^-45 from
\* 180.0 - 90 * 2^-45: the cells are (0, 45] and (45, 90].
top_cell(lon) == LET j == (lon - 1) \div 45 IN <<45 * j, 45 * (j + 1)>>

\* mid = (interval[0] + interval[1]) / 2 on these doubles: the sum lies in
\* [256, 512), where doubles lie 2 units apart, and an odd sum is rounded to
\* the neighbour with the even mantissa; the halving is exact.
double_mid(a, b) ==
    LET total == a + b
    IN  IF total % 2 = 0 THEN total \div 2
        ELSE IF ((total - 1) \div 2) % 2 = 0 THEN (total - 1) \div 2
        ELSE (total + 1) \div 2

RECURSIVE tail_bits(_, _, _, _)
\* The bits of the n bisections of geo_encode that follow the exact ones.
tail_bits(lon, low, high, n) ==
    IF n = 0 THEN <<>>
    ELSE LET mid == double_mid(low, high)
         IN  IF lon > mid THEN <<1>> \o tail_bits(lon, mid, high, n - 1)
             ELSE <<0>> \o tail_bits(lon, low, mid, n - 1)

\* The longitude bits of geo_encode at a precision of 20 or more: the cell
\* of the 48 exact bisections and the bits after them.
geo_encode_double(lon, precision) ==
    LET cell == top_cell(lon)
    IN  <<cell, tail_bits(lon, cell[1], cell[2], lon_bits(5 * precision) - 48)>>

RECURSIVE tail_interval(_, _, _)
\* lon_interval of geo_decode after the bits.
tail_interval(bits, low, high) ==
    IF bits = <<>> THEN <<low, high>>
    ELSE LET mid == double_mid(low, high)
         IN  IF Head(bits) = 1 THEN tail_interval(Tail(bits), mid, high)
             ELSE tail_interval(Tail(bits), low, mid)

\* The longitude that geo_decode returns for these bits.
geo_decode_double(geohash) ==
    LET interval == tail_interval(geohash[2], geohash[1][1], geohash[1][2])
    IN  double_mid(interval[1], interval[2])

\* ------------------------------------------------------------------------
\* location.py (locations of one meridian)
\* ------------------------------------------------------------------------
Location(lat, lon) ==
    [lat |-> lat, lon |-> lon, geohash |-> geo_encode(lat, lon, PRECISION)]

\* R * acos(...) for two locations of the same longitude, 1 latitude unit
\* being 1 m.
get_distance(pos_a, pos_b) == Abs(pos_a.lat - pos_b.lat)

\* atan2(y, x) with y = 0: 0 (north) when x >= 0, pi (south) when x < 0.
bearing(pos_a, pos_b) == IF pos_b.lat >= pos_a.lat THEN "north" ELSE "south"

end_pos(start_pos, theta, d) ==
    Location(IF theta = "north" THEN start_pos.lat + d ELSE start_pos.lat - d,
             start_pos.lon)

\* ------------------------------------------------------------------------
\* road_network.py
\* ------------------------------------------------------------------------
EmptyDict == <<>>

DictPut(d, k, v) == (k :> v) @@ d

\* The dict with the keys and values of the function f.
Dict(f) == f @@ EmptyDict

DictPop(d, k) == [x \in (DOMAIN d) \ {k} |-> d[x]]

\* Location(None, None): in Python 2 None is smaller than every number, so
\* geo_encode takes the lower half of every interval.
LocationNone ==
    [lat |-> "None", lon |-> "None",
     geohash |-> geo_encode(lat_interval0[1], lon_interval0[1], PRECISION)]

Vertex(v_id, location) ==
    [id |-> v_id, location |-> location, connected_to |-> EmptyDict]

Edge(e_id, start_vid, end_vid, weight) ==
    [id |-> e_id, start_vid |-> start_vid, end_vid |-> end_vid, weight |-> weight]

RoadNetwork0 ==
    [num_vertex |-> 0, num_edge |-> 0, vertex_set |-> EmptyDict, edge_set |-> EmptyDict]

\* A faulty variant of add_vertex: every call counts as a new vertex.
add_vertex_at_counted(rn, v_id, location) ==
    [rn EXCEPT !.num_vertex = @ + 1,
               !.vertex_set = DictPut(rn.vertex_set, v_id, Vertex(v_id, location))]

add_vertex_at(rn, v_id, location) ==
    [rn EXCEPT !.num_vertex = IF v_id \notin DOMAIN rn.vertex_set THEN @ + 1 ELSE @,
               !.vertex_set = DictPut(rn.vertex_set, v_id, Vertex(v_id, location))]

add_vertex(rn, v_id, lat, lon) == add_vertex_at(rn, v_id, Location(lat, lon))

add_edge(rn, e_id, start_vid, end_vid, weight) ==
    LET rn1 == [rn EXCEPT !.num_edge = IF e_id \notin DOMAIN rn.edge_set THEN @ + 1 ELSE @]
        rn2 == IF start_vid \notin DOMAIN rn1.vertex_set
               THEN add_vertex_at(rn1, start_vid, LocationNone) ELSE rn1
        rn3 == IF end_vid \notin DOMAIN rn2.vertex_set
               THEN add_vertex_at(rn2, end_vid, LocationNone) ELSE rn2
        start_vertex == rn3.vertex_set[start_vid]
    IN  [num_vertex |-> rn3.num_vertex,
         num_edge |-> rn3.num_edge,
         edge_set |-> DictPut(rn3.edge_set, e_id, Edge(e_id, start_vid, end_vid, weight)),
         vertex_set |-> DictPut(rn3.vertex_set, start_vid,
                            [id |-> start_vertex.id, location |-> start_vertex.location,
                             connected_to |-> DictPut(start_vertex.connected_to, end_vid, e_id)])]

get_vertex(rn, v_id) == rn.vertex_set[v_id]

get_edge(rn, e_id) == rn.edge_set[e_id]

get_neighbors(rn, s_vid) == KeysInOrder(DOMAIN rn.vertex_set[s_vid].connected_to)

get_eid(rn, start_vid, end_vid) ==
    IF end_vid \notin DOMAIN rn.vertex_set[start_vid].connected_to THEN None
    ELSE rn.vertex_set[start_vid].connected_to[end_vid]

get_weight(rn, start_vid, end_vid) ==
    IF end_vid \in DOMAIN rn.vertex_set[start_vid].connected_to
    THEN rn.edge_set[rn.vertex_set[start_vid].connected_to[end_vid]].weight
    ELSE inf

get_straight_distance(rn, start_vid, end_vid) ==
    get_distance(get_vertex(rn, start_vid).location, get_vertex(rn, end_vid).location)

\* data/vertices.csv: v_id, lat, lon.  Seven vertices on one meridian;
\* vertices 4 and 7 have no edge, and vertex 7 is alone in a far cell.
VerticesCsv == << <<1, 7, 1>>, <<2, 14, 1>>, <<3, 21, 1>>,
                  <<4, 28, 1>>, <<5, 35, 1>>, <<6, 42, 1>>, <<7, 105, 1>> >>

\* data/edges.csv: e_id, start_vid, end_vid, length.
EdgesCsv == << <<1, 1, 2, 7>>, <<2, 2, 1, 7>>, <<3, 2, 3, 7>>, <<4, 3, 2, 7>>,
               <<5, 3, 5, 14>>, <<6, 5, 3, 14>>, <<7, 5, 6, 7>>, <<8, 6, 5, 7>> >>

RECURSIVE load_vertices(_, _, _)
load_vertices(rn, rows, i) ==
    IF i > Len(rows) THEN rn
    ELSE load_vertices(add_vertex(rn, rows[i][1], rows[i][2], rows[i][3]), rows, i + 1)

RECURSIVE load_edges(_, _, _)
load_edges(rn, rows, i) ==
    IF i > Len(rows) THEN rn
    ELSE load_edges(add_edge(rn, rows[i][1], rows[i][2], rows[i][3], rows[i][4]),
                    rows, i + 1)

load_data == load_edges(load_vertices(RoadNetwork0, VerticesCsv, 1), EdgesCsv, 1)

Path(vertex_list, edge_list, distance) ==
    [vertex_list |-> vertex_list, edge_list |-> edge_list, distance |-> distance]

RECURSIVE walk_back(_, _, _, _)
\* The while loop of construct_path: the vertex list from e_vid back to s_vid,
\* or the empty list when the walk leaves came_from.
walk_back(s_vid, came_from, current, v_list) ==
    IF current = s_vid THEN v_list
    ELSE IF current \notin DOMAIN came_from THEN <<>>
    ELSE walk_back(s_vid, came_from, came_from[current],
                   Append(v_list, came_from[current]))

Reverse(s) == [i \in 1..Len(s) |-> s[Len(s) + 1 - i]]

RECURSIVE path_distance(_, _, _)
path_distance(rn, v_list, i) ==
    IF i >= Len(v_list) THEN 0
    ELSE get_weight(rn, v_list[i], v_list[i + 1]) + path_distance(rn, v_list, i + 1)

\* A faulty variant of construct_path: a target that the walk cannot reach is
\* returned as a path of its own.
construct_path_unchecked(rn, s_vid, e_vid, came_from) ==
    LET walked == Reverse(walk_back(s_vid, came_from, e_vid, <<e_vid>>))
        v_list == IF walked = <<>> THEN <<e_vid>> ELSE walked
        e_list == [i \in 1..(Len(v_list) - 1) |->
                       get_eid(rn, v_list[i], v_list[i + 1])]
    IN  Path(v_list, e_list, path_distance(rn, v_list, 1))

\* A faulty variant of construct_path: distance counts the edges of the path
\* instead of adding their weights.
construct_path_hops(rn, s_vid, e_vid, came_from) ==
    LET v_list == Reverse(walk_back(s_vid, came_from, e_vid, <<e_vid>>))
        e_list == [i \in 1..(IF Len(v_list) = 0 THEN 0 ELSE Len(v_list) - 1) |->
                       get_eid(rn, v_list[i], v_list[i + 1])]
    IN  Path(v_list, e_list, Len(e_list))

construct_path(rn, s_vid, e_vid, came_from) ==
    LET v_list == Reverse(walk_back(s_vid, came_from, e_vid, <<e_vid>>))
        e_list == [i \in 1..(IF Len(v_list) = 0 THEN 0 ELSE Len(v_list) - 1) |->
                       get_eid(rn, v_list[i], v_list[i + 1])]
    IN  Path(v_list, e_list, path_distance(rn, v_list, 1))

\* container.PriorityQueue.get on a heap of (priority, item) tuples.
PQTop(elements) ==
    CHOOSE x \in elements :
        \A y \in elements : x[1] < y[1] \/ (x[1] = y[1] /\ x[2] <= y[2])

RECURSIVE relax_first(_, _, _, _, _, _)
\* A faulty variant of relax: a vertex keeps the cost it was first reached
\* with.
relax_first(rn, e_vid, with_heuristic, current, nbrs, st) ==
    IF nbrs = <<>> THEN st
    ELSE LET neighbor == Head(nbrs)
             new_cost == st.cost_so_far[current] + get_weight(rn, current, neighbor)
             priority == IF with_heuristic
                         THEN new_cost + get_straight_distance(rn, neighbor, e_vid)
                         ELSE new_cost
             st1 == IF neighbor \notin DOMAIN st.cost_so_far
                    THEN [frontier |-> st.frontier \cup {<<priority, neighbor>>},
                          came_from |-> DictPut(st.came_from, neighbor, current),
                          cost_so_far |-> DictPut(st.cost_so_far, neighbor, new_cost)]
                    ELSE st
         IN  relax_first(rn, e_vid, with_heuristic, current, Tail(nbrs), st1)

RECURSIVE relax(_, _, _, _, _, _)
\* The for loop over the neighbours of current in get_shortest_path (A*,
\* with_heuristic) and in single_source_dijkstra.
relax(rn, e_vid, with_heuristic, current, nbrs, st) ==
    IF nbrs = <<>> THEN st
    ELSE LET neighbor == Head(nbrs)
             new_cost == st.cost_so_far[current] + get_weight(rn, current, neighbor)
             better == neighbor \notin DOMAIN st.cost_so_far
                       \/ new_cost < st.cost_so_far[neighbor]
             priority == IF with_heuristic
                         THEN new_cost + get_straight_distance(rn, neighbor, e_vid)
                         ELSE new_cost
             st1 == IF better
                    THEN [frontier |-> st.frontier \cup {<<priority, neighbor>>},
                          came_from |-> DictPut(st.came_from, neighbor, current),
                          cost_so_far |-> DictPut(st.cost_so_far, neighbor, new_cost)]
                    ELSE st
         IN  relax(rn, e_vid, with_heuristic, current, Tail(nbrs), st1)

SearchInit(s_vid) ==
    [frontier |-> {<<0, s_vid>>},
     came_from |-> DictPut(EmptyDict, s_vid, None),
     cost_so_far |-> DictPut(EmptyDict, s_vid, 0)]

RECURSIVE astar_loop(_, _, _)
astar_loop(rn, e_vid, st) ==
    IF st.frontier = {} THEN st.came_from
    ELSE LET top == PQTop(st.frontier)
             current == top[2]
             st1 == [st EXCEPT !.frontier = @ \ {top}]
         IN  IF current = e_vid THEN st1.came_from
             ELSE astar_loop(rn, e_vid,
                      relax(rn, e_vid, TRUE, current, get_neighbors(rn, current), st1))

get_shortest_path(rn, s_vid, e_vid) ==
    construct_path(rn, s_vid, e_vid, astar_loop(rn, e_vid, SearchInit(s_vid)))

RECURSIVE ssd_loop_first(_, _)
\* A faulty variant of the loop of single_source_dijkstra: no vertex is
\* relaxed a second time.
ssd_loop_first(rn, st) ==
    IF st.frontier = {} THEN st.came_from
    ELSE LET top == PQTop(st.frontier)
             current == top[2]
             st1 == [st EXCEPT !.frontier = @ \ {top}]
         IN  ssd_loop_first(rn, relax_first(rn, None, FALSE, current,
                                            get_neighbors(rn, current), st1))

RECURSIVE ssd_loop(_, _)
ssd_loop(rn, st) ==
    IF st.frontier = {} THEN st.came_from
    ELSE LET top == PQTop(st.frontier)
             current == top[2]
             st1 == [st EXCEPT !.frontier = @ \ {top}]
         IN  ssd_loop(rn, relax(rn, None, FALSE, current, get_neighbors(rn, current), st1))

single_source_dijkstra(rn, start) == ssd_loop(rn, SearchInit(start))

RECURSIVE bfs_visit(_, _, _)
\* The for loop over the neighbours of current in is_reachable and bfs; st
\* holds the FIFO frontier and came_from.
bfs_visit(current, nbrs, st) ==
    IF nbrs = <<>> THEN st
    ELSE LET neighbor == Head(nbrs)
             st1 == IF neighbor \notin DOMAIN st.came_from
                    THEN [frontier |-> Append(st.frontier, neighbor),
                          came_from |-> DictPut(st.came_from, neighbor, current)]
                    ELSE st
         IN  bfs_visit(current, Tail(nbrs), st1)

BfsInit(s_vid) ==
    [frontier |-> <<s_vid>>, came_from |-> DictPut(EmptyDict, s_vid, None)]

RECURSIVE is_reachable_loop(_, _, _)
is_reachable_loop(rn, e_vid, st) ==
    IF st.frontier = <<>> THEN FALSE
    ELSE LET current == Head(st.frontier)
             st1 == [st EXCEPT !.frontier = Tail(@)]
         IN  IF current = e_vid THEN TRUE
             ELSE is_reachable_loop(rn, e_vid,
                      bfs_visit(current, get_neighbors(rn, current), st1))

is_reachable(rn, s_vid, e_vid) == is_reachable_loop(rn, e_vid, BfsInit(s_vid))

RECURSIVE bfs_loop(_, _, _)
bfs_loop(rn, e_vid, st) ==
    IF st.frontier = <<>> THEN st.came_from
    ELSE LET current == Head(st.frontier)
             st1 == [st EXCEPT !.frontier = Tail(@)]
         IN  IF current = e_vid THEN st1.came_from
             ELSE bfs_loop(rn, e_vid,
                      bfs_visit(current, get_neighbors(rn, current), st1))

bfs(rn, s_vid, e_vid) ==
    construct_path(rn, s_vid, e_vid, bfs_loop(rn, e_vid, BfsInit(s_vid)))

RECURSIVE dijkstra_loop(_, _, _)
dijkstra_loop(rn, e_vid, st) ==
    IF st.frontier = {} THEN st.came_from
    ELSE LET top == PQTop(st.frontier)
             current == top[2]
             st1 == [st EXCEPT !.frontier = @ \ {top}]
         IN  IF current = e_vid THEN st1.came_from
             ELSE dijkstra_loop(rn, e_vid,
                      relax(rn, e_vid, FALSE, current, get_neighbors(rn, current), st1))

dijkstra(rn, s_vid, e_vid) ==
    construct_path(rn, s_vid, e_vid, dijkstra_loop(rn, e_vid, SearchInit(s_vid)))

\* The road network of the simulation (Simulation.__init__).
road_network == load_data

\* ------------------------------------------------------------------------
\* spatio_temporal_index.py: the static part of the database
\* ------------------------------------------------------------------------
GridCell(geohash) ==
    [geohash |-> geohash, center_location2 |-> geo_decode2(geohash), anchor |-> None,
     vertex_list |-> {}, spatial_grid_list |-> <<>>, temporal_grid_list |-> <<>>]

RECURSIVE load_road_network_loop(_, _, _)
load_road_network_loop(cells, rn, v_ids) ==
    IF v_ids = <<>> THEN cells
    ELSE LET v_id == Head(v_ids)
             geohash == get_vertex(rn, v_id).location.geohash
             cell == IF geohash \notin DOMAIN cells THEN GridCell(geohash) ELSE cells[geohash]
         IN  load_road_network_loop(
                 DictPut(cells, geohash, [cell EXCEPT !.vertex_list = @ \cup {v_id}]),
                 rn, Tail(v_ids))

load_road_network(rn) ==
    load_road_network_loop(EmptyDict, rn, KeysInOrder(DOMAIN rn.vertex_set))

RECURSIVE GridKeysFrom(_, _)
GridKeysFrom(cells, keys) ==
    IF keys = {} THEN <<>>
    ELSE LET k == CHOOSE x \in keys : \A y \in keys :
                      SetMin(cells[x].vertex_list) <= SetMin(cells[y].vertex_list)
         IN  <<k>> \o GridKeysFrom(cells, keys \ {k})

\* Iteration order of the cells dict (geohash keys), taken as the order in
\* which load_road_network created the cells.
GridKeys(cells) == GridKeysFrom(cells, DOMAIN cells)

RECURSIVE closest_vertex(_, _, _, _, _)
\* The scan "pick the vertex closest to" of __determine_anchor, on doubled
\* latitudes; best = <<v_id, 2 * min_dis>>.
closest_vertex(rn, v_ids, lat2, best, started) ==
    IF v_ids = <<>> THEN best[1]
    ELSE LET v_id == Head(v_ids)
             dis == Abs(2 * get_vertex(rn, v_id).location.lat - lat2)
         IN  IF ~started \/ dis < best[2]
             THEN closest_vertex(rn, Tail(v_ids), lat2, <<v_id, dis>>, TRUE)
             ELSE closest_vertex(rn, Tail(v_ids), lat2, best, started)

determine_anchor(cells, rn) ==
    Dict([g \in DOMAIN cells |->
        [cells[g] EXCEPT !.anchor =
            closest_vertex(rn, KeysInOrder(cells[g].vertex_list),
                           cells[g].center_location2[1], <<None, 0>>, FALSE)]])

MatrixCell(d, t) == [d |-> d, t |-> t]

\* The lengths of the model's network are multiples of AVERAGE_SPEED, so the
\* float division of the code is exact.
compute_distance_matrix(cells, rn) ==
    Dict([i \in DOMAIN cells |->
        LET anchor_i == cells[i].anchor
            come_from == single_source_dijkstra(rn, anchor_i)
        IN  Dict([j \in DOMAIN cells |->
                LET anchor_j == cells[j].anchor
                    d == get_distance(get_vertex(rn, anchor_i).location,
                                      get_vertex(rn, anchor_j).location)
                    shortest_path == construct_path(rn, anchor_i, anchor_j, come_from)
                IN  IF Len(shortest_path.vertex_list) = 0
                    THEN MatrixCell(d, d \div AVERAGE_SPEED)
                    ELSE MatrixCell(d, shortest_path.distance \div AVERAGE_SPEED)])])

\* A faulty variant of insert_sorted: the item goes to the front.
insert_sorted_front(sorted_items, item) == <<item>> \o sorted_items

RECURSIVE insert_sorted(_, _)
insert_sorted(sorted_items, item) ==
    IF sorted_items = <<>> THEN <<item>>
    ELSE IF item[2] < Head(sorted_items)[2] THEN <<item>> \o sorted_items
    ELSE <<Head(sorted_items)>> \o insert_sorted(Tail(sorted_items), item)

RECURSIVE sorted_by_value(_, _)
\* sorted(items, cmp on x[1]): a stable sort by the value.
sorted_by_value(items, done) ==
    IF items = <<>> THEN done
    ELSE sorted_by_value(Tail(items), insert_sorted(done, Head(items)))

construct_static_list(cells, matrix) ==
    LET keys == GridKeys(cells)
    IN  Dict([i \in DOMAIN cells |->
            [cells[i] EXCEPT
                !.spatial_grid_list =
                    sorted_by_value([k \in 1..Len(keys) |-> <<keys[k], matrix[i][keys[k]].d>>], <<>>),
                !.temporal_grid_list =
                    sorted_by_value([k \in 1..Len(keys) |-> <<keys[k], matrix[i][keys[k]].t>>], <<>>)]])

\* The code restores grid_distance_matrix from the file written after a run of
\* __compute_distance_matrix (line 154); the matrix is computed here.
init_static_info(cells, rn) ==
    LET anchored == determine_anchor(cells, rn)
    IN  construct_static_list(anchored, compute_distance_matrix(anchored, rn))

\* db.grid without the taxi lists (Simulation.__init__).
grid == init_static_info(load_road_network(road_network), road_network)

\* ------------------------------------------------------------------------
\* routing.py, query.py
\* ------------------------------------------------------------------------
ScheduleNode(query_id, is_origin, matched_vid) ==
    [query_id |-> query_id, is_origin |-> is_origin, matched_vid |-> matched_vid]

RECURSIVE map_match_scan(_, _, _, _, _)
map_match_scan(rn, v_ids, location, best, started) ==
    IF v_ids = <<>> THEN best[1]
    ELSE LET v_id == Head(v_ids)
             dis == get_distance(get_vertex(rn, v_id).location, location)
         IN  IF ~started \/ dis < best[2]
             THEN map_match_scan(rn, Tail(v_ids), location, <<v_id, dis>>, TRUE)
             ELSE map_match_scan(rn, Tail(v_ids), location, best, started)

map_match(query_id, location, is_origin, rn, db_grid) ==
    ScheduleNode(query_id, is_origin,
                 map_match_scan(rn, KeysInOrder(db_grid[location.geohash].vertex_list),
                                location, <<None, 0>>, FALSE))

\* The call map_match(...) with the exception it may raise: the lookup
\* database.grid[geohash] (line 61) raises KeyError for a geohash that is not
\* a key of grid.  node is <<>> when the call raises, <<ScheduleNode>> when it
\* returns.
map_match_call(query_id, location, is_origin, rn, db_grid) ==
    IF location.geohash \notin DOMAIN db_grid
    THEN [raised |-> "KeyError", node |-> <<>>]
    ELSE [raised |-> "", node |-> <<map_match(query_id, location, is_origin, rn, db_grid)>>]

TimeWindow(early, late) == [early |-> early, late |-> late]

\* Query.__init__ followed by Query.init_schedule_node.
Query(identifier, timestamp, origin, destination) ==
    [id |-> identifier, timestamp |-> timestamp,
     origin |-> origin, destination |-> destination,
     o_geohash |-> geo_encode(origin.lat, origin.lon, PRECISION),
     d_geohash |-> geo_encode(destination.lat, destination.lon, PRECISION),
     o_schedule_node |-> map_match(identifier, origin, TRUE, road_network, grid),
     d_schedule_node |-> map_match(identifier, destination, FALSE, road_network, grid),
     pickup_window |-> TimeWindow(timestamp, timestamp + PATIENCE),
     delivery_window |-> TimeWindow(timestamp, timestamp + MAX_INT),
     matched_taxi |-> None, status |-> WAITING, waiting_time |-> 0]

\* The times of day, in seconds after START_TIME, a line of a query file may
\* carry.
ArrivalSeconds == {0, 2}

\* The trips (ori_lat, des_lat) a line of a query file may ask for.
Trips == { <<14, 21>>, <<14, 28>>, <<18, 14>>, <<42, 21>>, <<105, 21>> }

\* The lines of the query files: time of day in seconds, ori_lat, ori_lon,
\* des_lat, des_lon.
QueryLines ==
    { <<s, trip[1], 1, trip[2], 1>> : s \in ArrivalSeconds, trip \in Trips }
        \cup { <<SimSeconds + 1, 14, 1, 21, 1>> }     \* a line after END_TIME

\* The order of the lines of a file: by time, the lines of one time by
\* ori_lat and des_lat.
LineBefore(a, b) ==
    \/ a[1] < b[1]
    \/ a[1] = b[1] /\ a[2] < b[2]
    \/ a[1] = b[1] /\ a[2] = b[2] /\ a[4] <= b[4]

\* The files hold NumQueries lines in that order.  The queries of one
\* timestamp are processed in any order, so another order of the lines gives
\* the same runs with other query ids.
QueryFiles ==
    { f \in [1..NumQueries -> QueryLines] :
        \A i \in 1..(NumQueries - 1) : LineBefore(f[i], f[i + 1]) }

\* The test of load_query on the timestamp of a line.
in_sim_time(line) ==
    ~(line[1] + 1 < SIM_START_TIME \/ line[1] + 1 > SIM_END_TIME)

\* load_query: the query set of the lines inside the simulated time, ids
\* from 0 in the order of the lines.
load_query(lines) ==
    LET kept == SelectSeq(lines, in_sim_time)
    IN  [identifier \in 0..(Len(kept) - 1) |->
            LET line == kept[identifier + 1]
            IN  Query(identifier, line[1] + 1,
                      Location(line[2], line[3]), Location(line[4], line[5]))]

\* ------------------------------------------------------------------------
\* taxi.py: construction
\* ------------------------------------------------------------------------
NoRoute == <<>>

Taxi(identifier, location, v_id) ==
    [id |-> identifier, speed |-> AVERAGE_SPEED, capacity |-> TAXI_CAPACITY,
     location |-> location, geohash |-> geo_encode(location.lat, location.lon, PRECISION),
     num_riders |-> 0, schedule |-> <<>>, route |-> NoRoute, serving_queries |-> {},
     v_id |-> v_id, e_id |-> None, eid_index |-> None, driving_distance |-> 0]

\* round(float(num_vertex) / total_num_vertex * NUM_TAXI), halves away from zero.
num_taxi_of(num_vertex, total_num_vertex) ==
    (2 * num_vertex * NUM_TAXI + total_num_vertex) \div (2 * total_num_vertex)

RECURSIVE gen_taxi_loop(_, _, _, _)
gen_taxi_loop(db_grid, rn, keys, taxi_set0) ==
    IF keys = <<>> THEN taxi_set0
    ELSE LET cell == db_grid[Head(keys)]
             num_taxi == num_taxi_of(Cardinality(cell.vertex_list), rn.num_vertex)
             v_ids == KeysInOrder(cell.vertex_list)
             n == IF num_taxi = 0 THEN 0
                  ELSE IF num_taxi < Len(v_ids) THEN num_taxi ELSE Len(v_ids)
             first == Cardinality(DOMAIN taxi_set0) + 1
             added == [identifier \in first..(first + n - 1) |->
                          LET v_id == v_ids[identifier - first + 1]
                          IN  Taxi(identifier, get_vertex(rn, v_id).location, v_id)]
         IN  gen_taxi_loop(db_grid, rn, Tail(keys),
                 [identifier \in (DOMAIN taxi_set0) \cup (DOMAIN added) |->
                     IF identifier \in DOMAIN added THEN added[identifier]
                     ELSE taxi_set0[identifier]])

gen_taxi(db_grid, rn) == gen_taxi_loop(db_grid, rn, GridKeys(db_grid), EmptyDict)

TaxiSet0 == gen_taxi(grid, road_network)

TaxiIds == DOMAIN TaxiSet0

\* init_dynamic_info: every taxi is in the taxi list of its cell at start_time.
init_dynamic_info(taxis, start_time) ==
    [g \in DOMAIN grid |->
        [identifier \in {k \in DOMAIN taxis : taxis[k].geohash = g} |-> start_time]]

\* ------------------------------------------------------------------------
\* State of a simulation
\* ------------------------------------------------------------------------
VARIABLES
    timestamp,          \* the loop variable of Simulation.run
    pc,                 \* the block of the loop body that runs next
    query_set,          \* Simulation.query_set: id -> Query
    query_queue,        \* Simulation.query_queue: entries <<priority, id>>
    work_queue,         \* the local PriorityQueue waiting_queries of run
    failed_queries,     \* Dispatcher.failed_queries (FIFO of ids)
    waiting_queries,    \* Dispatcher.waiting_queries (keys of the dict)
    completed_queries,  \* Dispatcher.completed_queries (list of ids)
    cancelled_queries,  \* Dispatcher.cancelled_queries (list of ids)
    taxi_set,           \* Simulation.taxi_set: id -> Taxi
    taxi_list,          \* GridCell.taxi_list of every cell: taxi id -> eta
    taxi_index,         \* position of the loop over taxi_set.values()
    network,            \* the RoadNetwork object that add_vertex and add_edge build
    match,              \* a call of map_match: its arguments and its outcome
    calls,              \* number of add_vertex and add_edge calls made on network
    search,             \* the searches of one pair of vertices of network: the results
    index,              \* a SpatioTemporalDatabase while its static info is built
    geo                 \* a point, its geohash, the decoded geohash and its geohash

vars == <<timestamp, pc, query_set, query_queue, work_queue, failed_queries,
          waiting_queries, completed_queries, cancelled_queries, taxi_set,
          taxi_list, taxi_index, network, match, calls, search, index,
          geo>>

\* ------------------------------------------------------------------------
\* taxi.py: behaviour
\* ------------------------------------------------------------------------
is_available(taxi) == taxi.num_riders < taxi.capacity /\ Len(taxi.schedule) # 0

\* A faulty variant of update_route: the route leads to the last node of the
\* schedule.
update_route_to_last(taxi, rn, from_node) ==
    IF Len(taxi.schedule) = 0 THEN [taxi EXCEPT !.route = NoRoute]
    ELSE LET from_vid == IF from_node = <<>> THEN taxi.v_id
                         ELSE from_node[1].matched_vid
             to_vid == taxi.schedule[Len(taxi.schedule)].matched_vid
             route == get_shortest_path(rn, from_vid, to_vid)
         IN  IF Len(route.edge_list) # 0
             THEN [taxi EXCEPT !.route = <<route>>, !.e_id = route.edge_list[1],
                               !.eid_index = 0]
             ELSE [taxi EXCEPT !.route = <<route>>]

\* update_route; from_node is <<>> for schedule_node=None and <<node>>
\* otherwise.
update_route(taxi, rn, from_node) ==
    IF Len(taxi.schedule) = 0 THEN [taxi EXCEPT !.route = NoRoute]
    ELSE LET from_vid == IF from_node = <<>> THEN taxi.v_id
                         ELSE from_node[1].matched_vid
             to_vid == taxi.schedule[1].matched_vid
             route == get_shortest_path(rn, from_vid, to_vid)
         IN  IF Len(route.edge_list) # 0
             THEN [taxi EXCEPT !.route = <<route>>, !.e_id = route.edge_list[1],
                               !.eid_index = 0]
             ELSE [taxi EXCEPT !.route = <<route>>]

\* __get_next_eid (eid_index counts from 0 as in the code).
get_next_eid(taxi) ==
    IF taxi.eid_index = Len(taxi.route[1].edge_list) - 1 THEN None
    ELSE taxi.route[1].edge_list[taxi.eid_index + 2]

\* A faulty variant of serve_query: the rider is not counted.
serve_query_no_count(taxi, query) ==
    [taxi EXCEPT !.serving_queries = @ \cup {query.id}]

serve_query(taxi, query) ==
    [taxi EXCEPT !.serving_queries = @ \cup {query.id}, !.num_riders = @ + 1]

\* A faulty variant of satisfy_query: the query stays in serving_queries.
satisfy_query_keep(taxi, query) == [taxi EXCEPT !.num_riders = @ - 1]

satisfy_query(taxi, query) ==
    [taxi EXCEPT !.serving_queries = @ \ {query.id}, !.num_riders = @ - 1]

\* A faulty variant of should_serve: the query gets in whatever its status.
should_serve_always(query) == TRUE

\* The test of drive at an origin node: the query gets in if it still waits.
should_serve(query) == query.status = WAITING

\* A faulty variant of remove_first_node: the node is left in the schedule.
remove_first_node_none(schedule, query_id) == schedule

\* The loop of drive that deletes the first node of the query left in the
\* schedule.
remove_first_node(schedule, query_id) ==
    LET hits == {i \in DOMAIN schedule : schedule[i].query_id = query_id}
    IN  IF hits = {} THEN schedule ELSE RemoveAt(schedule, SetMin(hits))

\* __update_pos on the taxi.
update_pos(taxi, new_pos) ==
    [taxi EXCEPT !.location = new_pos,
                 !.geohash = geo_encode(new_pos.lat, new_pos.lon, PRECISION)]

\* A faulty variant of update_pos_lists: the taxi stays in the old cell.
update_pos_lists_keep_old(lists, taxi, now, next_geohash) ==
    IF next_geohash # taxi.geohash
    THEN [lists EXCEPT ![next_geohash] = DictPut(@, taxi.id, now)]
    ELSE lists

\* A faulty variant of update_pos_lists: the taxi is not added to the new cell.
update_pos_lists_remove_only(lists, taxi, now, next_geohash) ==
    IF next_geohash # taxi.geohash
    THEN [lists EXCEPT ![taxi.geohash] = DictPop(@, taxi.id)]
    ELSE lists

\* __update_pos on the taxi lists, next_geohash being the geohash of the new
\* position: remove_taxi from the old cell, add_taxi to the new one.
update_pos_lists(lists, taxi, now, next_geohash) ==
    IF next_geohash # taxi.geohash
    THEN [g \in DOMAIN lists |->
             IF g = next_geohash THEN DictPut(lists[g], taxi.id, now)
             ELSE IF g = taxi.geohash THEN DictPop(lists[g], taxi.id)
             ELSE lists[g]]
    ELSE lists

\* ------------------------------------------------------------------------
\* spatio_temporal_index.py: the taxi lists
\* ------------------------------------------------------------------------
RECURSIVE update_taxi_list_loop(_, _, _, _, _, _, _)
\* The for loop of update_taxi_list over route.edge_list.
update_taxi_list_loop(lists, now, taxi_id, rn, edge_list, cur_geohash, dis) ==
    IF edge_list = <<>> THEN lists
    ELSE LET next_edge == get_edge(rn, Head(edge_list))
             next_geohash == get_vertex(rn, next_edge.end_vid).location.geohash
             dis1 == dis + next_edge.weight
         IN  IF next_geohash # cur_geohash
             THEN update_taxi_list_loop(
                      [lists EXCEPT ![next_geohash] =
                          DictPut(lists[next_geohash], taxi_id,
                                  now + dis1 \div AVERAGE_SPEED)],
                      now, taxi_id, rn, Tail(edge_list), next_geohash, dis1)
             ELSE update_taxi_list_loop(lists, now, taxi_id, rn, Tail(edge_list),
                                        cur_geohash, dis1)

\* A faulty variant of update_taxi_list: the end of the first edge counts as
\* a new cell.
update_taxi_list_first(lists, now, taxi, route, rn) ==
    IF route = NoRoute \/ Len(route[1].edge_list) = 0 THEN lists
    ELSE update_taxi_list_loop(lists, now, taxi.id, rn, route[1].edge_list,
                               <<>>, 0)

\* update_taxi_list; route is <<>> (None) or <<path>>.
update_taxi_list(lists, now, taxi, route, rn) ==
    IF route = NoRoute \/ Len(route[1].edge_list) = 0 THEN lists
    ELSE update_taxi_list_loop(lists, now, taxi.id, rn, route[1].edge_list,
             get_vertex(rn, route[1].vertex_list[1]).location.geohash, 0)

\* ------------------------------------------------------------------------
\* dispatcher.py
\* ------------------------------------------------------------------------
add_cancelled_query(cancelled, query_id) == Append(cancelled, query_id)

add_waiting_query(waiting, query_id) == waiting \cup {query_id}

\* A faulty variant of add_serving_query: the query stays in waiting_queries.
add_serving_query_keep(waiting, query_id) == waiting

\* add_serving_query pops the query from waiting_queries.
add_serving_query(waiting, query_id) == waiting \ {query_id}

\* A faulty variant of add_failed_query: the query is not kept.
add_failed_query_lost(failed, query_id) == failed

add_failed_query(failed, query_id) == Append(failed, query_id)

\* A faulty variant of add_completed_query: the query is put in front.
add_completed_query_front(completed, query_id) == <<query_id>> \o completed

add_completed_query(completed, query_id) == Append(completed, query_id)

\* A faulty variant of filter_taxis: every taxi of the cell is taken.
filter_taxis_all(cell_taxi_list, t_ij, late) ==
    KeysInOrder(DOMAIN cell_taxi_list)

\* The inner loop of __single_side_search: the taxis of one cell whose eta
\* satisfies the pickup window.
filter_taxis(cell_taxi_list, t_ij, late) ==
    SelectSeq(KeysInOrder(DOMAIN cell_taxi_list),
              LAMBDA taxi_id : t_ij + cell_taxi_list[taxi_id] <= late)

RECURSIVE single_side_search_loop(_, _, _, _, _)
\* The outer loop of __single_side_search over temporal_grid_list.
single_side_search_loop(now, query, lists, items, candi_taxi_list) ==
    IF items = <<>> THEN candi_taxi_list
    ELSE LET item == Head(items)
         IN  IF item[2] + now > query.pickup_window.late THEN candi_taxi_list
             ELSE single_side_search_loop(now, query, lists, Tail(items),
                      candi_taxi_list
                          \o filter_taxis(lists[item[1]], item[2],
                                          query.pickup_window.late))

\* A faulty variant of single_side_search: the loop over the cells does not
\* stop after the pickup window, where the taxis of every cell are taken.
single_side_search_stale(now, query, lists) ==
    IF now > query.pickup_window.late
    THEN KeysInOrder(UNION {DOMAIN lists[geohash] : geohash \in DOMAIN lists})
    ELSE single_side_search_loop(now, query, lists,
                                 grid[query.o_geohash].temporal_grid_list, <<>>)

single_side_search(now, query, lists) ==
    single_side_search_loop(now, query, lists,
                            grid[query.o_geohash].temporal_grid_list, <<>>)

\* A faulty variant of is_closer: every available taxi replaces the picked one.
is_closer_always(dis, min_dis) == TRUE

\* The test of the loop of __schedule that replaces the picked taxi.
is_closer(dis, min_dis) == dis < min_dis

RECURSIVE pick_taxi(_, _, _, _, _)
\* The loop of __schedule: the picked taxi id.
pick_taxi(query, candi_taxi_list, taxis, picked_taxi_id, min_dis) ==
    IF candi_taxi_list = <<>> THEN picked_taxi_id
    ELSE LET taxi_id == Head(candi_taxi_list)
             dis == get_distance(taxis[taxi_id].location, query.origin)
         IN  IF ~is_available(taxis[taxi_id])
             THEN pick_taxi(query, Tail(candi_taxi_list), taxis, picked_taxi_id, min_dis)
             ELSE IF is_closer(dis, min_dis)
             THEN pick_taxi(query, Tail(candi_taxi_list), taxis, taxi_id, dis)
             ELSE pick_taxi(query, Tail(candi_taxi_list), taxis, picked_taxi_id, min_dis)

\* __schedule: None when it returns False, the picked taxi id when True.
schedule_pick(query, candi_taxi_list, taxis) ==
    IF Len(candi_taxi_list) = 0 THEN None
    ELSE pick_taxi(query, candi_taxi_list, taxis, candi_taxi_list[1], MAX_INT)

\* A faulty variant of schedule_taxi: the origin node is appended twice.
schedule_taxi_twice(query, picked_taxi, rn) ==
    update_route([picked_taxi EXCEPT !.schedule =
                      Append(Append(Append(@, query.o_schedule_node),
                                    query.o_schedule_node), query.d_schedule_node)],
                 rn, <<>>)

\* A faulty variant of schedule_taxi: the destination node is appended first.
schedule_taxi_swapped(query, picked_taxi, rn) ==
    update_route([picked_taxi EXCEPT !.schedule =
                      Append(Append(@, query.d_schedule_node), query.o_schedule_node)],
                 rn, <<>>)

\* __schedule: the picked taxi after the two appends and update_route.
schedule_taxi(query, picked_taxi, rn) ==
    update_route([picked_taxi EXCEPT !.schedule =
                      Append(Append(@, query.o_schedule_node), query.d_schedule_node)],
                 rn, <<>>)

\* ------------------------------------------------------------------------
\* taxi.py: drive
\* ------------------------------------------------------------------------
\* The branch of drive at the end of the last edge of the route: the head of
\* the schedule is popped and handled, the route and the taxi lists updated.
\* taxi has already been moved to the end of the edge.
arrive_at_node(taxi, now, rn, queries, lists) ==
    LET schedule_node == Head(taxi.schedule)
        query == queries[schedule_node.query_id]
        popped == [taxi EXCEPT !.schedule = Tail(@)]
        served == schedule_node.is_origin /\ should_serve(query)
        handled == IF schedule_node.is_origin
                   THEN IF should_serve(query)
                        THEN serve_query(popped, query)
                        ELSE [popped EXCEPT !.schedule =
                                 remove_first_node(@, query.id)]
                   ELSE satisfy_query(popped, query)
        routed == update_route(handled, rn, <<schedule_node>>)
    IN  [taxi |-> routed,
         lists |-> update_taxi_list(lists, now, routed, routed.route, rn),
         served |-> IF served THEN {query.id} ELSE {},
         satisfied |-> IF ~schedule_node.is_origin THEN {query.id} ELSE {}]

\* A faulty variant of drive: the distance of a time step is counted before
\* the route is looked at.
drive_counts_idle(taxi, now, rn, queries, lists) ==
    [taxi |-> [taxi EXCEPT !.driving_distance = @ + taxi.speed * TIME_STEP],
     lists |-> lists, served |-> {}, satisfied |-> {}]

\* Taxi.drive: the taxi, the taxi lists and the queries served and satisfied
\* after one time step.
drive(taxi, now, rn, queries, lists) ==
    IF taxi.route = NoRoute \/ Len(taxi.route[1].edge_list) = 0
    THEN [taxi |-> taxi, lists |-> lists, served |-> {}, satisfied |-> {}]
    ELSE LET d == taxi.speed * TIME_STEP
             driven == [taxi EXCEPT !.driving_distance = @ + d]
             cur_edge == get_edge(rn, taxi.e_id)
             to_location == get_vertex(rn, cur_edge.end_vid).location
             theta == bearing(taxi.location, to_location)
             next_pos == end_pos(taxi.location, theta, d)
             e_start_vertex == get_vertex(rn, cur_edge.start_vid)
             edge_offset == get_distance(e_start_vertex.location, next_pos)
         IN  IF edge_offset < cur_edge.weight
             THEN LET moved == update_pos(driven, next_pos)
                  IN  [taxi |-> moved,
                       lists |-> update_pos_lists(lists, taxi, now, moved.geohash),
                       served |-> {}, satisfied |-> {}]
             ELSE LET moved == update_pos(driven, to_location)
                      at_end == [moved EXCEPT !.v_id = cur_edge.end_vid]
                      lists1 == update_pos_lists(lists, taxi, now, moved.geohash)
                      next_eid == get_next_eid(at_end)
                  IN  IF next_eid # None
                      THEN [taxi |-> [at_end EXCEPT !.e_id = next_eid,
                                                    !.eid_index = @ + 1],
                            lists |-> lists1, served |-> {}, satisfied |-> {}]
                      ELSE arrive_at_node(at_end, now, rn, queries, lists1)

\* The test edge_offset < cur_edge.weight on doubles.  get_distance is
\* R * acos(...) and is not exact: for a point at the distance weight it
\* returns a double below (err < 0), at or above weight.  The distances of
\* the model differ by whole metres, so the rounding decides the test only
\* when the distance is the weight.
offset_below(edge_offset, weight, err) ==
    edge_offset < weight \/ (edge_offset = weight /\ err < 0)

\* bearing on doubles: atan2 of rounding noise, any direction, for a taxi
\* that stands where it drives to.
bearing_double(pos_a, pos_b, noise) ==
    IF pos_a.lat = pos_b.lat THEN noise ELSE bearing(pos_a, pos_b)

\* Taxi.drive on doubles: err is the rounding of get_distance in
\* edge_offset, noise the bearing of a taxi at the end of its edge.
drive_double(taxi, now, rn, queries, lists, err, noise) ==
    IF taxi.route = NoRoute \/ Len(taxi.route[1].edge_list) = 0
    THEN [taxi |-> taxi, lists |-> lists, served |-> {}, satisfied |-> {}]
    ELSE LET d == taxi.speed * TIME_STEP
             driven == [taxi EXCEPT !.driving_distance = @ + d]
             cur_edge == get_edge(rn, taxi.e_id)
             to_location == get_vertex(rn, cur_edge.end_vid).location
             theta == bearing_double(taxi.location, to_location, noise)
             next_pos == end_pos(taxi.location, theta, d)
             e_start_vertex == get_vertex(rn, cur_edge.start_vid)
             edge_offset == get_distance(e_start_vertex.location, next_pos)
         IN  IF offset_below(edge_offset, cur_edge.weight, err)
             THEN LET moved == update_pos(driven, next_pos)
                  IN  [taxi |-> moved,
                       lists |-> update_pos_lists(lists, taxi, now, moved.geohash),
                       served |-> {}, satisfied |-> {}]
             ELSE LET moved == update_pos(driven, to_location)
                      at_end == [moved EXCEPT !.v_id = cur_edge.end_vid]
                      lists1 == update_pos_lists(lists, taxi, now, moved.geohash)
                      next_eid == get_next_eid(at_end)
                  IN  IF next_eid # None
                      THEN [taxi |-> [at_end EXCEPT !.e_id = next_eid,
                                                    !.eid_index = @ + 1],
                            lists |-> lists1, served |-> {}, satisfied |-> {}]
                      ELSE arrive_at_node(at_end, now, rn, queries, lists1)

\* ------------------------------------------------------------------------
\* query.py: update_status
\* ------------------------------------------------------------------------
\* A faulty variant of update_status: waiting_time counts for matched
\* queries only.
update_status_matched_only(query, now) ==
    IF query.status = WAITING
    THEN [query EXCEPT !.waiting_time = IF query.matched_taxi # None THEN @ + 1 ELSE @,
                       !.status = IF now > query.pickup_window.late
                                  THEN CANCELLED ELSE @]
    ELSE query

\* A faulty variant of update_status: the waiting query is never cancelled.
update_status_no_cancel(query, now) ==
    IF query.status = WAITING THEN [query EXCEPT !.waiting_time = @ + 1]
    ELSE query

\* A faulty variant of update_status: the query is cancelled one timestep early.
update_status_early(query, now) ==
    IF query.status = WAITING
    THEN [query EXCEPT !.waiting_time = @ + 1,
                       !.status = IF now >= query.pickup_window.late
                                  THEN CANCELLED ELSE @]
    ELSE query

update_status(query, now) ==
    IF query.status = WAITING
    THEN [query EXCEPT !.waiting_time = @ + 1,
                       !.status = IF now > query.pickup_window.late
                                  THEN CANCELLED ELSE @]
    ELSE query

\* ------------------------------------------------------------------------
\* container.py (PriorityQueue, Queue)
\* ------------------------------------------------------------------------
\* PriorityQueue.put(item, priority) of a query.
pq_put(elements, queries, ids) ==
    elements \cup {<<queries[identifier].timestamp, identifier>> : identifier \in ids}

\* The entries PriorityQueue.get may return: those of the smallest priority
\* (the order among queries of one priority is not fixed).
pq_front(elements) == {e \in elements : \A f \in elements : e[1] <= f[1]}

\* ------------------------------------------------------------------------
\* simulation.py
\* ------------------------------------------------------------------------
\* The blocks of the body of the loop of Simulation.run, in the order of the
\* code; the statuses are updated when the block "process" ends.
\* A faulty variant of after_block: the stranded queries are not drained.
after_block_no_drain(block) ==
    CASE block = "ingest" -> "process"
      [] block = "drain" -> "process"
      [] block = "process" -> "drive"
      [] block = "drive" -> "ingest"

after_block(block) ==
    CASE block = "ingest" -> "drain"
      [] block = "drain" -> "process"
      [] block = "process" -> "drive"
      [] block = "drive" -> "ingest"

\* No geohash is being computed.
NoGeo ==
    [arith |-> "exact", lat |-> 0, lon |-> 0, precision |-> 0, state |-> "none",
     geohash |-> <<>>, decoded2 |-> <<>>, again |-> <<>>]

\* No database is being built.
NoIndex == [state |-> "none", grid |-> EmptyDict, grid_distance_matrix |-> EmptyDict]

\* No search is called for.
NoSearch ==
    [s_vid |-> 0, e_vid |-> 0, reachable |-> <<>>, bfs |-> <<>>, dijkstra |-> <<>>,
     astar |-> <<>>, single_source |-> <<>>]

\* No call of map_match is followed.
NoMatch ==
    [query_id |-> 0, lat |-> 0, is_origin |-> FALSE, state |-> "none",
     node |-> <<>>, error |-> ""]

Init ==
    /\ timestamp = SIM_START_TIME
    /\ pc = "ingest"
    /\ query_set \in {load_query(lines) : lines \in QueryFiles}
    /\ query_queue = pq_put({}, query_set, DOMAIN query_set)
    /\ work_queue = {}
    /\ failed_queries = <<>>
    /\ waiting_queries = {}
    /\ completed_queries = <<>>
    /\ cancelled_queries = <<>>
    /\ taxi_set = TaxiSet0
    /\ taxi_list = init_dynamic_info(TaxiSet0, SIM_START_TIME)
    /\ taxi_index = 0
    /\ network = road_network
    /\ match = NoMatch
    /\ calls = 0
    /\ search = NoSearch
    /\ index = NoIndex
    /\ geo = NoGeo

\* A faulty variant of Ingest: the queries at the front of the arrival queue
\* go to the work queue whatever their timestamp.
IngestFront ==
    /\ pc = "ingest"
    /\ LET arrived == {e[2] : e \in pq_front(query_queue)}
       IN  /\ work_queue' = pq_put(work_queue, query_set, arrived)
           /\ query_queue' = {e \in query_queue : e[2] \notin arrived}
    /\ pc' = after_block(pc)
    /\ UNCHANGED <<timestamp, query_set, failed_queries, waiting_queries,
                   completed_queries, cancelled_queries, taxi_set, taxi_list,
                   taxi_index>>
    /\ UNCHANGED <<network, match, calls, search, index, geo>>

\* Lines 57-63: the queries that happen in this timestamp go to the work
\* queue; the first query of another timestamp is put back and ends the loop.
Ingest ==
    /\ pc = "ingest"
    /\ LET arrived == {e[2] : e \in {f \in pq_front(query_queue) :
                                         query_set[f[2]].timestamp = timestamp}}
       IN  /\ work_queue' = pq_put(work_queue, query_set, arrived)
           /\ query_queue' = {e \in query_queue : e[2] \notin arrived}
    /\ pc' = after_block(pc)
    /\ UNCHANGED <<timestamp, query_set, failed_queries, waiting_queries,
                   completed_queries, cancelled_queries, taxi_set, taxi_list,
                   taxi_index>>
    /\ UNCHANGED <<network, match, calls, search, index, geo>>

\* Lines 64-66: the stranded queries go to the work queue.
DrainFailed ==
    /\ pc = "drain"
    /\ work_queue' = pq_put(work_queue, query_set, Range(failed_queries))
    /\ failed_queries' = <<>>
    /\ pc' = after_block(pc)
    /\ UNCHANGED <<timestamp, query_set, query_queue, waiting_queries,
                   completed_queries, cancelled_queries, taxi_set, taxi_list,
                   taxi_index>>
    /\ UNCHANGED <<network, match, calls, search, index, geo>>

\* Lines 69-72: a cancelled query of the work queue is recorded.
RecordCancelled ==
    /\ pc = "process"
    /\ \E e \in pq_front(work_queue) :
        /\ query_set[e[2]].status = CANCELLED
        /\ work_queue' = work_queue \ {e}
        /\ cancelled_queries' = add_cancelled_query(cancelled_queries, e[2])
    /\ UNCHANGED <<timestamp, pc, query_set, query_queue, failed_queries,
                   waiting_queries, completed_queries, taxi_set, taxi_list,
                   taxi_index>>
    /\ UNCHANGED <<network, match, calls, search, index, geo>>

\* Lines 69-74 and Dispatcher.dispatch_taxi: a query of the work queue is
\* dispatched.
DispatchTaxi ==
    /\ pc = "process"
    /\ \E e \in pq_front(work_queue) :
        LET query == query_set[e[2]]
            candi_taxi_list == single_side_search(timestamp, query, taxi_list)
            picked_taxi_id == schedule_pick(query, candi_taxi_list, taxi_set)
        IN  /\ query.status # CANCELLED
            /\ work_queue' = work_queue \ {e}
            /\ IF picked_taxi_id # None
               THEN /\ query_set' = [query_set EXCEPT
                                        ![query.id].matched_taxi = picked_taxi_id]
                    /\ taxi_set' = [taxi_set EXCEPT ![picked_taxi_id] =
                           schedule_taxi(query, taxi_set[picked_taxi_id], road_network)]
                    /\ waiting_queries' = add_waiting_query(waiting_queries, query.id)
                    /\ UNCHANGED failed_queries
               ELSE /\ failed_queries' = add_failed_query(failed_queries, query.id)
                    /\ UNCHANGED <<query_set, taxi_set, waiting_queries>>
    /\ UNCHANGED <<timestamp, pc, query_queue, completed_queries,
                   cancelled_queries, taxi_list, taxi_index>>
    /\ UNCHANGED <<network, match, calls, search, index, geo>>

\* Lines 77-79, when the work queue is empty: the status of every query that
\* has arrived and is waiting is updated.
UpdateStatus ==
    /\ pc = "process"
    /\ work_queue = {}
    /\ query_set' = [identifier \in DOMAIN query_set |->
                        IF query_set[identifier].timestamp <= timestamp
                           /\ query_set[identifier].status = WAITING
                        THEN update_status(query_set[identifier], timestamp)
                        ELSE query_set[identifier]]
    /\ pc' = after_block(pc)
    /\ taxi_index' = 1
    /\ UNCHANGED <<timestamp, query_queue, work_queue, failed_queries,
                   waiting_queries, completed_queries, cancelled_queries,
                   taxi_set, taxi_list>>
    /\ UNCHANGED <<network, match, calls, search, index, geo>>

\* Lines 82-83: the next taxi of taxi_set drives.
Drive ==
    /\ pc = "drive"
    /\ taxi_index <= Cardinality(TaxiIds)
    /\ LET taxi_id == KeysInOrder(TaxiIds)[taxi_index]
           out == drive(taxi_set[taxi_id], timestamp, road_network, query_set,
                        taxi_list)
       IN  /\ taxi_set' = [taxi_set EXCEPT ![taxi_id] = out.taxi]
           /\ taxi_list' = out.lists
           /\ query_set' = [identifier \in DOMAIN query_set |->
                               IF identifier \in out.served
                               THEN [query_set[identifier] EXCEPT !.status = RIDING]
                               ELSE IF identifier \in out.satisfied
                               THEN [query_set[identifier] EXCEPT !.status = SATISFIED]
                               ELSE query_set[identifier]]
           /\ waiting_queries' =
                  IF out.served = {} THEN waiting_queries
                  ELSE add_serving_query(waiting_queries, CHOOSE q \in out.served : TRUE)
           /\ completed_queries' =
                  IF out.satisfied = {} THEN completed_queries
                  ELSE add_completed_query(completed_queries,
                                           CHOOSE q \in out.satisfied : TRUE)
    /\ taxi_index' = taxi_index + 1
    /\ UNCHANGED <<timestamp, pc, query_queue, work_queue, failed_queries,
                   cancelled_queries>>
    /\ UNCHANGED <<network, match, calls, search, index, geo>>

\* Line 52: the loop goes to the next timestamp, or ends after SIM_END_TIME.
NextTimestamp ==
    /\ pc = "drive"
    /\ taxi_index > Cardinality(TaxiIds)
    /\ timestamp' = timestamp + 1
    /\ pc' = IF timestamp + 1 <= SIM_END_TIME THEN after_block(pc) ELSE "done"
    /\ taxi_index' = 0
    /\ UNCHANGED <<query_set, query_queue, work_queue, failed_queries,
                   waiting_queries, completed_queries, cancelled_queries,
                   taxi_set, taxi_list>>
    /\ UNCHANGED <<network, match, calls, search, index, geo>>

Next ==
    \/ Ingest
    \/ DrainFailed
    \/ RecordCancelled
    \/ DispatchTaxi
    \/ UpdateStatus
    \/ Drive
    \/ NextTimestamp

Spec == Init /\ [][Next]_vars

\* ------------------------------------------------------------------------
\* routing.py: calls of map_match while the simulation is set up
\* ------------------------------------------------------------------------
\* The simulation as Simulation.__init__ has it before the queries get their
\* schedule nodes.
SetUp ==
    /\ timestamp = SIM_START_TIME
    /\ pc = "init"
    /\ query_set = EmptyDict
    /\ query_queue = {}
    /\ work_queue = {}
    /\ failed_queries = <<>>
    /\ waiting_queries = {}
    /\ completed_queries = <<>>
    /\ cancelled_queries = <<>>
    /\ taxi_set = TaxiSet0
    /\ taxi_list = init_dynamic_info(TaxiSet0, SIM_START_TIME)
    /\ taxi_index = 0
    /\ calls = 0

\* Simulation.__init__, no geohash being computed apart from it.
SetUpNoGeo == SetUp /\ geo = NoGeo

\* Query.init_schedule_node calls map_match for an endpoint of a query at
\* latitude lat (0..MaxLat) on the meridian of the network.
InitMatch ==
    /\ SetUpNoGeo
    /\ search = NoSearch
    /\ index = NoIndex
    /\ network = road_network
    /\ match \in {[query_id |-> 0, lat |-> lat, is_origin |-> is_origin,
                   state |-> "called", node |-> <<>>, error |-> ""] :
                      lat \in 0..MaxLat, is_origin \in BOOLEAN}

\* The call returns or raises.
MapMatch ==
    /\ match.state = "called"
    /\ LET out == map_match_call(match.query_id, Location(match.lat, 1),
                                 match.is_origin, network, grid)
       IN  match' = [match EXCEPT
                        !.state = IF out.raised = "" THEN "returned" ELSE "raised",
                        !.node = out.node, !.error = out.raised]
    /\ UNCHANGED <<timestamp, pc, query_set, query_queue, work_queue,
                   failed_queries, waiting_queries, completed_queries,
                   cancelled_queries, taxi_set, taxi_list, taxi_index, network,
                   calls, search, index, geo>>

NextMatch == MapMatch

SpecMatch == InitMatch /\ [][NextMatch]_vars

\* ------------------------------------------------------------------------
\* road_network.py: a RoadNetwork built by calls of add_vertex and add_edge
\* ------------------------------------------------------------------------
\* RoadNetwork(): no vertex and no edge.
InitNetwork ==
    /\ SetUpNoGeo
    /\ search = NoSearch
    /\ index = NoIndex
    /\ match = NoMatch
    /\ network = RoadNetwork0

\* add_vertex(v_id, lat, lon) for a vertex id of 1..MaxVid, new or known, on
\* the meridian of the network; MaxCalls calls are made in all.
AddVertex ==
    /\ calls < MaxCalls
    /\ calls' = calls + 1
    /\ \E v_id \in 1..MaxVid :
           network' = add_vertex(network, v_id, AVERAGE_SPEED * v_id, 1)
    /\ UNCHANGED <<timestamp, pc, query_set, query_queue, work_queue,
                   failed_queries, waiting_queries, completed_queries,
                   cancelled_queries, taxi_set, taxi_list, taxi_index, match,
                   search, index, geo>>

\* add_edge(e_id, start_vid, end_vid, weight) for an edge id of 1..MaxEid,
\* new or known, between any two vertex ids of 1..MaxVid.
AddEdge ==
    /\ calls < MaxCalls
    /\ calls' = calls + 1
    /\ \E e_id \in 1..MaxEid, start_vid \in 1..MaxVid, end_vid \in 1..MaxVid :
           network' = add_edge(network, e_id, start_vid, end_vid, AVERAGE_SPEED)
    /\ UNCHANGED <<timestamp, pc, query_set, query_queue, work_queue,
                   failed_queries, waiting_queries, completed_queries,
                   cancelled_queries, taxi_set, taxi_list, taxi_index, match,
                   search, index, geo>>

NextNetwork ==
    \/ AddVertex
    \/ AddEdge

SpecNetwork == InitNetwork /\ [][NextNetwork]_vars

\* ------------------------------------------------------------------------
\* road_network.py: the searches on a road network
\* ------------------------------------------------------------------------
\* vertices.csv of the searched networks: three vertices on one meridian.
PathVerticesCsv == << <<1, 7, 1>>, <<2, 14, 1>>, <<3, 21, 1>> >>

\* The pairs (start_vid, end_vid) of the lines of edges.csv, in file order.
PathPairs == << <<1, 2>>, <<2, 1>>, <<2, 3>>, <<3, 2>>, <<1, 3>>, <<3, 1>> >>

\* The lengths of the lines of edges.csv: below, equal to and above the
\* straight distance of two neighbouring vertices.
PathWeights == {1, 7, 21}

\* An edges file gives each pair a length, or no line (0); it has at most
\* MaxEdges lines.
EdgeChoices ==
    {c \in [1..Len(PathPairs) -> PathWeights \cup {0}] :
        Cardinality({i \in 1..Len(PathPairs) : c[i] # 0}) <= MaxEdges}

RECURSIVE EdgeRows(_, _, _)
\* The lines e_id, start_vid, end_vid, length of the file of choice c.
EdgeRows(c, i, rows) ==
    IF i > Len(PathPairs) THEN rows
    ELSE EdgeRows(c, i + 1,
             IF c[i] = 0 THEN rows
             ELSE Append(rows, <<Len(rows) + 1, PathPairs[i][1], PathPairs[i][2], c[i]>>))

\* load_data on these files.
PathNetworks ==
    {load_edges(load_vertices(RoadNetwork0, PathVerticesCsv, 1), EdgeRows(c, 1, <<>>), 1) :
        c \in EdgeChoices}

\* A road network as load_data builds it and a pair of its vertices to
\* search a path for.
InitPath ==
    /\ SetUpNoGeo
    /\ index = NoIndex
    /\ match = NoMatch
    /\ network \in PathNetworks
    /\ search \in {[NoSearch EXCEPT !.s_vid = s_vid, !.e_vid = e_vid] :
                      s_vid \in 1..Len(PathVerticesCsv), e_vid \in 1..Len(PathVerticesCsv)}

IsReachable ==
    /\ search.reachable = <<>>
    /\ search' = [search EXCEPT
                     !.reachable = <<is_reachable(network, search.s_vid, search.e_vid)>>]
    /\ UNCHANGED <<timestamp, pc, query_set, query_queue, work_queue,
                   failed_queries, waiting_queries, completed_queries,
                   cancelled_queries, taxi_set, taxi_list, taxi_index, network,
                   match, calls, index, geo>>

Bfs ==
    /\ search.bfs = <<>>
    /\ search' = [search EXCEPT !.bfs = <<bfs(network, search.s_vid, search.e_vid)>>]
    /\ UNCHANGED <<timestamp, pc, query_set, query_queue, work_queue,
                   failed_queries, waiting_queries, completed_queries,
                   cancelled_queries, taxi_set, taxi_list, taxi_index, network,
                   match, calls, index, geo>>

Dijkstra ==
    /\ search.dijkstra = <<>>
    /\ search' = [search EXCEPT
                     !.dijkstra = <<dijkstra(network, search.s_vid, search.e_vid)>>]
    /\ UNCHANGED <<timestamp, pc, query_set, query_queue, work_queue,
                   failed_queries, waiting_queries, completed_queries,
                   cancelled_queries, taxi_set, taxi_list, taxi_index, network,
                   match, calls, index, geo>>

GetShortestPath ==
    /\ search.astar = <<>>
    /\ search' = [search EXCEPT
                     !.astar = <<get_shortest_path(network, search.s_vid, search.e_vid)>>]
    /\ UNCHANGED <<timestamp, pc, query_set, query_queue, work_queue,
                   failed_queries, waiting_queries, completed_queries,
                   cancelled_queries, taxi_set, taxi_list, taxi_index, network,
                   match, calls, index, geo>>

\* construct_path on the came_from of single_source_dijkstra.
SingleSourceDijkstra ==
    /\ search.single_source = <<>>
    /\ search' = [search EXCEPT
                     !.single_source =
                         <<construct_path(network, search.s_vid, search.e_vid,
                                          single_source_dijkstra(network, search.s_vid))>>]
    /\ UNCHANGED <<timestamp, pc, query_set, query_queue, work_queue,
                   failed_queries, waiting_queries, completed_queries,
                   cancelled_queries, taxi_set, taxi_list, taxi_index, network,
                   match, calls, index, geo>>

NextPath ==
    \/ IsReachable
    \/ Bfs
    \/ Dijkstra
    \/ GetShortestPath
    \/ SingleSourceDijkstra

SpecPath == InitPath /\ [][NextPath]_vars

\* ------------------------------------------------------------------------
\* spatio_temporal_index.py: the static info of a database
\* ------------------------------------------------------------------------
RECURSIVE SubSeqs(_)
\* The files that keep some of the lines of a file, in their order.
SubSeqs(rows) ==
    IF rows = <<>> THEN {<<>>}
    ELSE LET rest == SubSeqs(Tail(rows))
         IN  rest \cup {<<Head(rows)>> \o r : r \in rest}

\* load_data on vertices.csv and on edges.csv without up to MaxDropped of
\* its lines.
IndexNetworks ==
    {load_edges(load_vertices(RoadNetwork0, VerticesCsv, 1), rows, 1) :
        rows \in {r \in SubSeqs(EdgesCsv) : Len(r) >= Len(EdgesCsv) - MaxDropped}}

\* SpatioTemporalDatabase() after load_road_network(road_network).
InitIndex ==
    /\ SetUpNoGeo
    /\ match = NoMatch
    /\ search = NoSearch
    /\ network \in IndexNetworks
    /\ index = [state |-> "loaded", grid |-> load_road_network(network),
                grid_distance_matrix |-> EmptyDict]

DetermineAnchor ==
    /\ index.state = "loaded"
    /\ index' = [index EXCEPT !.state = "anchored",
                              !.grid = determine_anchor(index.grid, network)]
    /\ UNCHANGED <<timestamp, pc, query_set, query_queue, work_queue,
                   failed_queries, waiting_queries, completed_queries,
                   cancelled_queries, taxi_set, taxi_list, taxi_index, network,
                   match, calls, search, geo>>

\* The matrix of __compute_distance_matrix, which init_static_info reads
\* from the file that holds it.
ComputeDistanceMatrix ==
    /\ index.state = "anchored"
    /\ index' = [index EXCEPT
                    !.state = "matrix",
                    !.grid_distance_matrix = compute_distance_matrix(index.grid, network)]
    /\ UNCHANGED <<timestamp, pc, query_set, query_queue, work_queue,
                   failed_queries, waiting_queries, completed_queries,
                   cancelled_queries, taxi_set, taxi_list, taxi_index, network,
                   match, calls, search, geo>>

ConstructStaticList ==
    /\ index.state = "matrix"
    /\ index' = [index EXCEPT
                    !.state = "static",
                    !.grid = construct_static_list(index.grid, index.grid_distance_matrix)]
    /\ UNCHANGED <<timestamp, pc, query_set, query_queue, work_queue,
                   failed_queries, waiting_queries, completed_queries,
                   cancelled_queries, taxi_set, taxi_list, taxi_index, network,
                   match, calls, search, geo>>

NextIndex ==
    \/ DetermineAnchor
    \/ ComputeDistanceMatrix
    \/ ConstructStaticList

SpecIndex == InitIndex /\ [][NextIndex]_vars

\* ------------------------------------------------------------------------
\* geohash.py: a point encoded, decoded and encoded again
\* ------------------------------------------------------------------------
\* Coordinates of the points, in the units of lat_interval0: the ends and
\* the middle of an interval iv, points beside them, and points on, below
\* and above the borders of cells of the road network.
Coordinates(iv) ==
    {iv[1], iv[1] + 1, -17, -16, -1, 0, 1, 7, 16, 17, 32, iv[2] - 1, iv[2]}

\* The points whose geohash is computed exactly, at the precisions
\* 1..MaxPrecision.
ExactPoints ==
    {[NoGeo EXCEPT !.lat = lat, !.lon = lon, !.precision = precision,
                   !.state = "called"] :
        lat \in Coordinates(lat_interval0), lon \in Coordinates(lon_interval0),
        precision \in 1..MaxPrecision}

\* The points of the two cells below 180.0 degrees of longitude, at the
\* precisions 20 and 21 (50 and 53 bisections of the longitude).
DoublePoints ==
    {[NoGeo EXCEPT !.arith = "double", !.lon = lon, !.precision = precision,
                   !.state = "called"] :
        lon \in 1..90, precision \in {20, 21}}

\* geo_encode(lat, lon, precision) is called for a point in range.
InitGeo ==
    /\ SetUp
    /\ network = road_network
    /\ match = NoMatch
    /\ search = NoSearch
    /\ index = NoIndex
    /\ geo \in ExactPoints \cup DoublePoints

GeoEncode ==
    /\ geo.state = "called"
    /\ geo' = [geo EXCEPT
                  !.state = "encoded",
                  !.geohash = IF geo.arith = "exact"
                              THEN geo_encode(geo.lat, geo.lon, geo.precision)
                              ELSE geo_encode_double(geo.lon, geo.precision)]
    /\ UNCHANGED <<timestamp, pc, query_set, query_queue, work_queue,
                   failed_queries, waiting_queries, completed_queries,
                   cancelled_queries, taxi_set, taxi_list, taxi_index, network,
                   match, calls, search, index>>

GeoDecode ==
    /\ geo.state = "encoded"
    /\ geo' = [geo EXCEPT
                  !.state = "decoded",
                  !.decoded2 = IF geo.arith = "exact" THEN geo_decode2(geo.geohash)
                               ELSE <<geo_decode_double(geo.geohash)>>]
    /\ UNCHANGED <<timestamp, pc, query_set, query_queue, work_queue,
                   failed_queries, waiting_queries, completed_queries,
                   cancelled_queries, taxi_set, taxi_list, taxi_index, network,
                   match, calls, search, index>>

\* geo_encode of the decoded point, which the model holds doubled.
GeoEncodeDecoded ==
    /\ geo.state = "decoded"
    /\ geo.arith = "exact" => geo.decoded2[1] % 2 = 0 /\ geo.decoded2[2] % 2 = 0
    /\ geo' = [geo EXCEPT
                  !.state = "again",
                  !.again = IF geo.arith = "exact"
                            THEN geo_encode(geo.decoded2[1] \div 2, geo.decoded2[2] \div 2,
                                            geo.precision)
                            ELSE geo_encode_double(geo.decoded2[1], geo.precision)]
    /\ UNCHANGED <<timestamp, pc, query_set, query_queue, work_queue,
                   failed_queries, waiting_queries, completed_queries,
                   cancelled_queries, taxi_set, taxi_list, taxi_index, network,
                   match, calls, search, index>>

NextGeo ==
    \/ GeoEncode
    \/ GeoDecode
    \/ GeoEncodeDecoded

SpecGeo == InitGeo /\ [][NextGeo]_vars

\* ------------------------------------------------------------------------
\* spatio_temporal_index.py: update_taxi_list called with a route
\* ------------------------------------------------------------------------
\* The routes of a taxi: None, and the paths get_shortest_path returns
\* between the vertices of the road network.
Routes ==
    {NoRoute} \cup {<<get_shortest_path(road_network, s_vid, e_vid)>> :
                        s_vid \in DOMAIN road_network.vertex_set,
                        e_vid \in DOMAIN road_network.vertex_set}

\* The taxi lists before the call: those of init_dynamic_info, and lists in
\* which every cell has an entry of every taxi.
TaxiLists ==
    {init_dynamic_info(TaxiSet0, SIM_START_TIME),
     [g \in DOMAIN grid |-> [identifier \in TaxiIds |-> SIM_START_TIME]]}

\* taxi.py:157: update_taxi_list is about to be called at a timestamp for
\* the taxi taxi_index, whose route has just been set.
InitTaxiList ==
    /\ timestamp \in SIM_START_TIME..SIM_END_TIME
    /\ pc = "update"
    /\ query_set = EmptyDict
    /\ query_queue = {}
    /\ work_queue = {}
    /\ failed_queries = <<>>
    /\ waiting_queries = {}
    /\ completed_queries = <<>>
    /\ cancelled_queries = <<>>
    /\ taxi_index \in TaxiIds
    /\ \E route \in Routes :
           taxi_set = [TaxiSet0 EXCEPT ![taxi_index].route = route]
    /\ taxi_list \in TaxiLists
    /\ calls = 0
    /\ network = road_network
    /\ match = NoMatch
    /\ search = NoSearch
    /\ index = NoIndex
    /\ geo = NoGeo

UpdateTaxiList ==
    /\ pc = "update"
    /\ taxi_list' = update_taxi_list(taxi_list, timestamp, taxi_set[taxi_index],
                                     taxi_set[taxi_index].route, road_network)
    /\ pc' = "updated"
    /\ UNCHANGED <<timestamp, query_set, query_queue, work_queue,
                   failed_queries, waiting_queries, completed_queries,
                   cancelled_queries, taxi_set, taxi_index, network, match,
                   calls, search, index, geo>>

NextTaxiList == UpdateTaxiList

SpecTaxiList == InitTaxiList /\ [][NextTaxiList]_vars

\* ------------------------------------------------------------------------
\* taxi.py: the motion steps of one taxi, computed on doubles
\* ------------------------------------------------------------------------
\* A query of the first timestamp has been dispatched to the taxi taxi_index
\* (Dispatcher.__schedule); the taxi is about to drive, one step per
\* timestamp.
InitMotion ==
    /\ timestamp = SIM_START_TIME
    /\ pc = "motion"
    /\ taxi_index \in TaxiIds
    /\ \E trip \in Trips :
           LET query == Query(0, SIM_START_TIME, Location(trip[1], 1),
                              Location(trip[2], 1))
           IN  /\ query_set = [identifier \in {0} |->
                                  [query EXCEPT !.matched_taxi = taxi_index]]
               /\ taxi_set = [TaxiSet0 EXCEPT ![taxi_index] =
                                  schedule_taxi(query, @, road_network)]
    /\ query_queue = {}
    /\ work_queue = {}
    /\ failed_queries = <<>>
    /\ waiting_queries = {0}
    /\ completed_queries = <<>>
    /\ cancelled_queries = <<>>
    /\ taxi_list = init_dynamic_info(TaxiSet0, SIM_START_TIME)
    /\ calls = 0
    /\ network = road_network
    /\ match = NoMatch
    /\ search = NoSearch
    /\ index = NoIndex
    /\ geo = NoGeo

\* simulation.py:83 for the taxi taxi_index: one call of Taxi.drive, with the
\* roundings the doubles of its distance and bearing can have.
MotionStep ==
    /\ pc = "motion"
    /\ timestamp <= MaxSteps
    /\ \E err \in {-1, 0, 1}, noise \in {"north", "south"} :
           LET out == drive_double(taxi_set[taxi_index], timestamp, road_network,
                                   query_set, taxi_list, err, noise)
           IN  /\ taxi_set' = [taxi_set EXCEPT ![taxi_index] = out.taxi]
               /\ taxi_list' = out.lists
               /\ query_set' = [identifier \in DOMAIN query_set |->
                                   IF identifier \in out.served
                                   THEN [query_set[identifier] EXCEPT !.status = RIDING]
                                   ELSE IF identifier \in out.satisfied
                                   THEN [query_set[identifier] EXCEPT !.status = SATISFIED]
                                   ELSE query_set[identifier]]
               /\ waiting_queries' =
                      IF out.served = {} THEN waiting_queries
                      ELSE add_serving_query(waiting_queries, CHOOSE q \in out.served : TRUE)
               /\ completed_queries' =
                      IF out.satisfied = {} THEN completed_queries
                      ELSE add_completed_query(completed_queries,
                                               CHOOSE q \in out.satisfied : TRUE)
    /\ timestamp' = timestamp + 1
    /\ UNCHANGED <<pc, query_queue, work_queue, failed_queries,
                   cancelled_queries, taxi_index, network, match, calls, search,
                   index, geo>>

NextMotion == MotionStep

SpecMotion == InitMotion /\ [][NextMotion]_vars

\* ------------------------------------------------------------------------
\* Properties
\* ------------------------------------------------------------------------
QueryIds == DOMAIN query_set

\* C1: the status of a query changes only from WAITING to RIDING, from
\* WAITING to CANCELLED and from RIDING to SATISFIED; so CANCELLED and
\* SATISFIED are final and no status is taken twice.
C1_StatusLifecycle ==
    [][\A identifier \in QueryIds :
          query_set'[identifier].status # query_set[identifier].status
              => <<query_set[identifier].status, query_set'[identifier].status>>
                     \in {<<WAITING, RIDING>>, <<WAITING, CANCELLED>>,
                          <<RIDING, SATISFIED>>}]_vars

\* C1 witness: one query has been satisfied, another one cancelled after it
\* was matched, and the taxi has passed the origin of a cancelled query.
C1_Witness ==
    /\ \E identifier \in QueryIds : query_set[identifier].status = SATISFIED
    /\ \E identifier \in QueryIds :
          /\ query_set[identifier].status = CANCELLED
          /\ query_set[identifier].matched_taxi # None
          /\ \A node \in Range(taxi_set[query_set[identifier].matched_taxi].schedule) :
                 node.query_id # identifier

\* C2: the status of a query becomes RIDING only in a timestep t with
\* query.timestamp <= t <= query.pickup_window.late.
C2_PickupInsideWindow ==
    [][\A identifier \in QueryIds :
          (query_set'[identifier].status = RIDING
           /\ query_set[identifier].status # RIDING)
              => /\ query_set[identifier].timestamp <= timestamp
                 /\ timestamp <= query_set[identifier].pickup_window.late]_vars

\* C2 witness: a taxi has just picked a query up.
C2_Witness ==
    /\ pc = "drive"
    /\ \E identifier \in QueryIds :
          /\ query_set[identifier].status = RIDING
          /\ query_set[identifier].matched_taxi # None
          /\ identifier \in taxi_set[query_set[identifier].matched_taxi].serving_queries
          /\ taxi_index = query_set[identifier].matched_taxi + 1
          /\ query_set[identifier].waiting_time = 1

\* C3: in every state, and so after every timestep, every taxi has
\* 0 <= num_riders <= capacity and num_riders = |serving_queries|.
C3_RidersWithinCapacity ==
    \A taxi_id \in DOMAIN taxi_set :
        /\ 0 <= taxi_set[taxi_id].num_riders
        /\ taxi_set[taxi_id].num_riders <= taxi_set[taxi_id].capacity
        /\ taxi_set[taxi_id].num_riders
               = Cardinality(taxi_set[taxi_id].serving_queries)

\* C3 witness: a taxi that carries a rider has just been given a query that
\* arrived in this timestep.
C3_Witness ==
    /\ pc = "process"
    /\ \E taxi_id \in DOMAIN taxi_set :
          /\ taxi_set[taxi_id].num_riders = 1
          /\ Len(taxi_set[taxi_id].schedule) >= 3
          /\ \E identifier \in QueryIds :
                /\ query_set[identifier].timestamp = timestamp
                /\ query_set[identifier].matched_taxi = taxi_id
                /\ taxi_set[taxi_id].schedule[Len(taxi_set[taxi_id].schedule)]
                       = query_set[identifier].d_schedule_node

\* The number of places a query is kept in: waiting_queries, the
\* serving_queries of the taxis, completed_queries and cancelled_queries.
Places(identifier) ==
    (IF identifier \in waiting_queries THEN 1 ELSE 0)
    + Cardinality({taxi_id \in DOMAIN taxi_set :
                       identifier \in taxi_set[taxi_id].serving_queries})
    + Cardinality({i \in DOMAIN completed_queries : completed_queries[i] = identifier})
    + Cardinality({i \in DOMAIN cancelled_queries : cancelled_queries[i] = identifier})

\* C4: every query is in at most one of waiting_queries, the serving_queries
\* of one taxi, completed_queries and cancelled_queries.
C4_OnePlacePerQuery == \A identifier \in QueryIds : Places(identifier) <= 1

\* C4 witness: one query waits for its taxi, another one is completed and a
\* third one is recorded as cancelled.
C4_Witness ==
    /\ waiting_queries # {}
    /\ completed_queries # <<>>
    /\ cancelled_queries # <<>>

\* The queries that the step dispatches (Dispatcher.dispatch_taxi is called
\* for the query the step takes from the work queue, unless it is cancelled).
DispatchedNow ==
    {e[2] : e \in {f \in work_queue \ work_queue' :
                       query_set[f[2]].status # CANCELLED}}

\* The candidates of a query that are available: num_riders < capacity and
\* a schedule that is not empty.
AvailableCandidates(candi_taxi_list) ==
    {taxi_id \in Range(candi_taxi_list) :
        /\ taxi_set[taxi_id].num_riders < taxi_set[taxi_id].capacity
        /\ taxi_set[taxi_id].schedule # <<>>}

\* C5: a dispatch whose candidate list is empty or holds unavailable taxis
\* only fails: the query goes to failed_queries, its matched_taxi stays
\* unset and no taxi changes; so no taxi with an empty schedule is given a
\* query.
C5_FailsWithoutAvailableCandidate ==
    [][\A identifier \in DispatchedNow :
          LET query == query_set[identifier]
              candi_taxi_list == single_side_search(timestamp, query, taxi_list)
          IN  /\ AvailableCandidates(candi_taxi_list) = {}
                    => /\ failed_queries' = Append(failed_queries, identifier)
                       /\ query_set'[identifier].matched_taxi = None
                       /\ taxi_set' = taxi_set
              /\ \A taxi_id \in DOMAIN taxi_set :
                    taxi_set[taxi_id].schedule = <<>>
                        => taxi_set'[taxi_id].schedule = <<>>]_vars

\* C6: when a candidate is available, the dispatch selects an available
\* candidate whose distance to the origin of the query is minimal among the
\* available candidates.
C6_ClosestAvailableCandidate ==
    [][\A identifier \in DispatchedNow :
          LET query == query_set[identifier]
              available == AvailableCandidates(
                               single_side_search(timestamp, query, taxi_list))
              picked == query_set'[identifier].matched_taxi
          IN  available # {}
                  => /\ picked \in available
                     /\ \A taxi_id \in available :
                            get_distance(taxi_set[picked].location, query.origin)
                                <= get_distance(taxi_set[taxi_id].location,
                                                query.origin)]_vars

\* C6 witness: a query that arrived in this timestep has just been given to
\* a taxi that was available (it waits for an earlier query), while a
\* farther taxi of the candidates is available too.
C6_Witness ==
    /\ pc = "process"
    /\ \E identifier \in QueryIds :
          LET query == query_set[identifier]
              picked == query.matched_taxi
              candi_taxi_list == single_side_search(timestamp, query, taxi_list)
          IN  /\ query.timestamp = timestamp
              /\ picked # None
              /\ taxi_set[picked].num_riders = 0
              /\ Len(taxi_set[picked].schedule) >= 4
              /\ taxi_set[picked].schedule[Len(taxi_set[picked].schedule)]
                     = query.d_schedule_node
              /\ \E taxi_id \in AvailableCandidates(candi_taxi_list) :
                     get_distance(taxi_set[taxi_id].location, query.origin)
                         > get_distance(taxi_set[picked].location, query.origin)

\* The index of the entry of a temporal grid list at which the candidate
\* search for the query stops: the first entry <<j, t_ij>> with
\* t_ij + timestamp > late, or the end of the list.
StopIndex(items, query) ==
    LET stops == {i \in DOMAIN items :
                     items[i][2] + timestamp > query.pickup_window.late}
    IN  IF stops = {} THEN Len(items) + 1 ELSE SetMin(stops)

\* The pairs <<i, k>> of a visited entry i and a taxi k registered in its
\* cell with t_ij + eta <= late.
FeasiblePairs(items, query) ==
    {p \in (1..(StopIndex(items, query) - 1)) \X TaxiIds :
        /\ p[2] \in DOMAIN taxi_list[items[p[1]][1]]
        /\ items[p[1]][2] + taxi_list[items[p[1]][1]][p[2]]
               <= query.pickup_window.late}

\* C7: for every query about to be processed, the temporal grid list of the
\* origin cell is ascending, the candidate search returns exactly the taxis
\* registered in a cell before the stopping entry with t_ij + eta <= late
\* (once for every such cell), and no entry with t_ij + timestamp <= late
\* lies at or after the stopping entry.
C7_CandidateSearch ==
    pc = "process" =>
        \A e \in work_queue :
            LET query == query_set[e[2]]
                items == grid[query.o_geohash].temporal_grid_list
                candi_taxi_list == single_side_search(timestamp, query, taxi_list)
            IN  /\ \A i \in DOMAIN items : \A j \in DOMAIN items :
                       i < j => items[i][2] <= items[j][2]
                /\ Range(candi_taxi_list)
                       = {p[2] : p \in FeasiblePairs(items, query)}
                /\ Len(candi_taxi_list)
                       = Cardinality(FeasiblePairs(items, query))
                /\ \A i \in DOMAIN items :
                       items[i][2] + timestamp <= query.pickup_window.late
                           => i < StopIndex(items, query)

\* C7 witness: a query is about to be processed whose search visits two
\* cells and stops before the end of the list, takes a taxi and leaves out a
\* taxi registered in a visited cell (eta too late) and a taxi registered
\* only in a cell that is not visited.
C7_Witness ==
    /\ pc = "process"
    /\ \E e \in work_queue :
          LET query == query_set[e[2]]
              items == grid[query.o_geohash].temporal_grid_list
              stop == StopIndex(items, query)
              candi_taxi_list == single_side_search(timestamp, query, taxi_list)
          IN  /\ query.status # CANCELLED
              /\ 2 < stop
              /\ stop <= Len(items)
              /\ candi_taxi_list # <<>>
              /\ \E i \in 1..(stop - 1) :
                     \E taxi_id \in DOMAIN taxi_list[items[i][1]] :
                         items[i][2] + taxi_list[items[i][1]][taxi_id]
                             > query.pickup_window.late
              /\ \E i \in stop..Len(items) :
                     \E taxi_id \in DOMAIN taxi_list[items[i][1]] :
                         taxi_id \notin Range(candi_taxi_list)

\* Every schedule keeps the origin node of a query before its destination
\* node, and a destination node without its origin node belongs to a query
\* that is RIDING in the taxi.
ScheduleOrdered ==
    \A taxi_id \in DOMAIN taxi_set :
        LET schedule == taxi_set[taxi_id].schedule
        IN  \A j \in DOMAIN schedule :
                ~schedule[j].is_origin
                    => /\ \A i \in DOMAIN schedule :
                              (schedule[i].query_id = schedule[j].query_id
                               /\ schedule[i].is_origin) => i < j
                       /\ (\A i \in DOMAIN schedule :
                               schedule[i].query_id = schedule[j].query_id
                                   => ~schedule[i].is_origin)
                              => /\ query_set[schedule[j].query_id].status = RIDING
                                 /\ schedule[j].query_id
                                        \in taxi_set[taxi_id].serving_queries

\* A successful dispatch appends the origin node and then the destination
\* node of the query at the tail of the schedule of the selected taxi.
DispatchAppends ==
    \A identifier \in DispatchedNow :
        LET picked == query_set'[identifier].matched_taxi
        IN  picked # None
                => taxi_set'[picked].schedule
                       = taxi_set[picked].schedule
                             \o <<query_set[identifier].o_schedule_node,
                                  query_set[identifier].d_schedule_node>>

\* C8: a successful dispatch appends origin then destination at the tail, and
\* every schedule of every reachable state is ordered as ScheduleOrdered says.
C8_OriginBeforeDestination == []ScheduleOrdered /\ [][DispatchAppends]_vars

\* C8 witness: a taxi that carries a rider, the destination node of the rider
\* at the head of its schedule, has just been given the two nodes of a query
\* of this timestep at the tail.
C8_Witness ==
    /\ pc = "process"
    /\ \E taxi_id \in DOMAIN taxi_set :
          LET schedule == taxi_set[taxi_id].schedule
          IN  /\ Len(schedule) >= 3
              /\ ~schedule[1].is_origin
              /\ query_set[schedule[1].query_id].status = RIDING
              /\ \E identifier \in QueryIds :
                    /\ query_set[identifier].timestamp = timestamp
                    /\ query_set[identifier].matched_taxi = taxi_id
                    /\ schedule[Len(schedule) - 1] = query_set[identifier].o_schedule_node
                    /\ schedule[Len(schedule)] = query_set[identifier].d_schedule_node

\* The queries that have arrived and that no dispatch attempt has matched:
\* an attempt matches a taxi exactly when its candidate list is not empty.
Unmatched ==
    {identifier \in QueryIds :
        /\ query_set[identifier].timestamp <= timestamp
        /\ query_set[identifier].matched_taxi = None}

\* C9: a query that finds no candidate taxi fails in every timestep from its
\* arrival to pickup_window.late (it stands in failed_queries when the taxis
\* drive), is WAITING until the statuses are updated in timestep
\* pickup_window.late + 1, and is CANCELLED from that update on.
C9_FailsUntilCancelled ==
    \A identifier \in Unmatched :
        LET query == query_set[identifier]
            late == query.pickup_window.late
        IN  /\ timestamp <= late => query.status = WAITING
            /\ (timestamp <= late /\ pc = "drive")
                   => identifier \in Range(failed_queries)
            /\ (timestamp = late + 1 /\ pc \in {"ingest", "drain", "process"})
                   => query.status = WAITING
            /\ (timestamp = late + 1 /\ pc = "drive") => query.status = CANCELLED
            /\ timestamp > late + 1 => query.status = CANCELLED

\* C9 witness: a query that has failed in every timestep is cancelled in
\* timestep pickup_window.late + 1.
C9_Witness ==
    \E identifier \in Unmatched :
        /\ timestamp = query_set[identifier].pickup_window.late + 1
        /\ pc = "drive"
        /\ query_set[identifier].status = CANCELLED
        /\ query_set[identifier].waiting_time
               = timestamp - query_set[identifier].timestamp + 1
        /\ identifier \in Range(failed_queries)

\* The blocks that follow one another in a timestep, and from one timestep
\* to the next.
BlockOrder ==
    { <<"ingest", "drain">>, <<"drain", "process">>, <<"process", "drive">>,
      <<"drive", "ingest">>, <<"drive", "done">> }

\* A step that processes a query of the work queue.
ProcessesQuery == work_queue' # work_queue /\ work_queue' \subseteq work_queue

\* A step that updates the statuses of the waiting queries.
UpdatesStatuses ==
    \E identifier \in QueryIds :
        query_set'[identifier].waiting_time # query_set[identifier].waiting_time

\* A step in which a taxi drives.
MovesTaxi ==
    \/ taxi_list' # taxi_list
    \/ \E taxi_id \in DOMAIN taxi_set :
          \/ taxi_set'[taxi_id].location # taxi_set[taxi_id].location
          \/ taxi_set'[taxi_id].driving_distance # taxi_set[taxi_id].driving_distance
          \/ Len(taxi_set'[taxi_id].schedule) < Len(taxi_set[taxi_id].schedule)

PhaseStep ==
    /\ pc' # pc => <<pc, pc'>> \in BlockOrder
    /\ timestamp' # timestamp
           => /\ pc = "drive"
              /\ taxi_index > Cardinality(TaxiIds)
              /\ timestamp' = timestamp + 1
    /\ query_queue' # query_queue => pc = "ingest"
    /\ failed_queries' # failed_queries /\ failed_queries' = <<>> => pc = "drain"
    /\ ProcessesQuery => pc = "process" /\ pc' = "process" /\ taxi_index = 0
    /\ UpdatesStatuses => pc = "process" /\ work_queue = {} /\ pc' = "drive"
    /\ MovesTaxi => pc = "drive" /\ work_queue = {} /\ taxi_index >= 1
    /\ (pc = "process" /\ pc' = "drive")
           => \A identifier \in QueryIds :
                  (query_set[identifier].timestamp <= timestamp
                   /\ query_set[identifier].status = WAITING)
                      => query_set'[identifier].waiting_time
                             = query_set[identifier].waiting_time + 1

\* C10: in every timestep the blocks run in the order ingest, drain, process,
\* status update, drive: a query is processed only before any status update
\* and before any taxi of the timestep has driven (taxi_index = 0), the
\* statuses are updated only when the work queue is empty, and a taxi drives
\* only after the status update.
C10_PhaseOrder == [][PhaseStep]_vars

\* C10 witness: in a later timestep a query is about to be processed, some
\* taxi has driven in an earlier timestep and no taxi has driven in this one.
C10_Witness ==
    /\ timestamp >= 2
    /\ pc = "process"
    /\ work_queue # {}
    /\ taxi_index = 0
    /\ \E taxi_id \in DOMAIN taxi_set : taxi_set[taxi_id].driving_distance > 0
    /\ \E identifier \in QueryIds : query_set[identifier].waiting_time > 0

\* The taxi has made its motion step of this timestep.
HasDriven(taxi_id) ==
    /\ pc = "drive"
    /\ \E i \in 1..(taxi_index - 1) : KeysInOrder(TaxiIds)[i] = taxi_id

\* The taxi stands on the vertex of the origin of the query, which is the
\* only query of its schedule.
StandsAtOrigin(taxi_id, identifier) ==
    LET taxi == taxi_set[taxi_id]
        query == query_set[identifier]
    IN  /\ query.matched_taxi = taxi_id
        /\ taxi.v_id = query.o_schedule_node.matched_vid
        /\ taxi.location = get_vertex(road_network, taxi.v_id).location
        /\ taxi.schedule = <<query.o_schedule_node, query.d_schedule_node>>

\* C11: a query dispatched to a taxi that stands with an empty schedule on the
\* vertex of its origin is picked up by the first motion step of the taxi:
\* after that step the origin node is not the head of the schedule any more,
\* and the query is never cancelled.
C11_PickupAtOwnVertex ==
    \A taxi_id \in DOMAIN taxi_set : \A identifier \in QueryIds :
        /\ (HasDriven(taxi_id) /\ query_set[identifier].matched_taxi = taxi_id
            /\ taxi_set[taxi_id].v_id = query_set[identifier].o_schedule_node.matched_vid)
               => ~StandsAtOrigin(taxi_id, identifier)
        /\ StandsAtOrigin(taxi_id, identifier)
               => query_set[identifier].status # CANCELLED

\* The step is the motion step of the taxi.
DrivesNow(taxi_id) ==
    /\ pc = "drive"
    /\ taxi_index <= Cardinality(TaxiIds)
    /\ KeysInOrder(TaxiIds)[taxi_index] = taxi_id
    /\ taxi_index' = taxi_index + 1

\* The route of the taxi was computed from the vertex of the head of its
\* schedule to that same vertex: the taxi is at distance 0 from its target.
AtDistanceZero(taxi_id) ==
    LET taxi == taxi_set[taxi_id]
    IN  /\ Len(taxi.schedule) # 0
        /\ taxi.route # NoRoute
        /\ taxi.route[1].vertex_list = <<taxi.schedule[1].matched_vid>>

\* C12: a taxi at distance 0 from the vertex of the head of its schedule pops
\* that head in its next motion step.
C12_PopsHeadAtDistanceZero ==
    [][\A taxi_id \in DOMAIN taxi_set :
           (DrivesNow(taxi_id) /\ AtDistanceZero(taxi_id))
               => taxi_set'[taxi_id].schedule = Tail(taxi_set[taxi_id].schedule)
                  \/ taxi_set'[taxi_id].schedule
                         = remove_first_node(Tail(taxi_set[taxi_id].schedule),
                                             taxi_set[taxi_id].schedule[1].query_id)]_vars

\* The motion step of the taxi pops the head of its schedule.
PopsHead(taxi_id) ==
    /\ DrivesNow(taxi_id)
    /\ Len(taxi_set'[taxi_id].schedule) < Len(taxi_set[taxi_id].schedule)

\* The nodes of a schedule that do not belong to the query.
WithoutQuery(schedule, identifier) ==
    SelectSeq(schedule, LAMBDA node : node.query_id # identifier)

\* C13: when the origin node of a CANCELLED query is popped, the query stays
\* CANCELLED and out of the taxi, its destination node and no other node
\* leaves the schedule, and the route is computed again from the vertex of the
\* popped node to the next node of the schedule, or is none without one.
C13_CancelledOriginPopped ==
    [][\A taxi_id \in DOMAIN taxi_set :
           LET taxi == taxi_set[taxi_id]
               after == taxi_set'[taxi_id]
               node == taxi.schedule[1]
           IN  (PopsHead(taxi_id) /\ node.is_origin
                /\ query_set[node.query_id].status = CANCELLED)
                   => /\ query_set'[node.query_id].status = CANCELLED
                      /\ after.num_riders = taxi.num_riders
                      /\ after.serving_queries = taxi.serving_queries
                      /\ node.query_id \notin after.serving_queries
                      /\ Len(after.schedule) = Len(taxi.schedule) - 2
                      /\ after.schedule = WithoutQuery(Tail(taxi.schedule), node.query_id)
                      /\ IF after.schedule = <<>> THEN after.route = NoRoute
                         ELSE /\ after.route # NoRoute
                              /\ LET vertex_list == after.route[1].vertex_list
                                 IN  vertex_list # <<>>
                                         => /\ vertex_list[1] = node.matched_vid
                                            /\ vertex_list[Len(vertex_list)]
                                                   = after.schedule[1].matched_vid]_vars

\* C13 witness: a query matched to a taxi is CANCELLED and none of its nodes
\* is left in the schedule of the taxi, which stands on the vertex of its
\* origin: the origin node was popped after the cancellation.
C13_Witness ==
    \E identifier \in QueryIds :
        LET query == query_set[identifier]
        IN  /\ query.status = CANCELLED
            /\ query.matched_taxi # None
            /\ LET taxi == taxi_set[query.matched_taxi]
               IN  /\ \A i \in DOMAIN taxi.schedule :
                          taxi.schedule[i].query_id # identifier
                   /\ taxi.v_id = query.o_schedule_node.matched_vid
                   /\ identifier \notin taxi.serving_queries

\* The last vertex of the route of a taxi, None for no route or an empty one.
RouteTarget(taxi) ==
    IF taxi.route = NoRoute THEN None
    ELSE IF taxi.route[1].vertex_list = <<>> THEN None
    ELSE taxi.route[1].vertex_list[Len(taxi.route[1].vertex_list)]

\* A dispatch to a taxi whose schedule holds nodes leaves the head of the
\* schedule and the target of the route as they are.
DispatchKeepsTarget ==
    \A identifier \in DispatchedNow :
        LET picked == query_set'[identifier].matched_taxi
        IN  (picked # None /\ taxi_set[picked].schedule # <<>>)
                => /\ taxi_set'[picked].schedule[1] = taxi_set[picked].schedule[1]
                   /\ RouteTarget(taxi_set'[picked]) = RouteTarget(taxi_set[picked])
                   /\ RouteTarget(taxi_set'[picked])
                          \in {None, taxi_set[picked].schedule[1].matched_vid}

\* A motion step that pops the head leaves a route to the new head.
PopLeadsToNextNode ==
    \A taxi_id \in DOMAIN taxi_set :
        (PopsHead(taxi_id) /\ taxi_set'[taxi_id].schedule # <<>>)
            => /\ taxi_set'[taxi_id].route # NoRoute
               /\ RouteTarget(taxi_set'[taxi_id])
                      \in {None, taxi_set'[taxi_id].schedule[1].matched_vid}

\* A query is picked up at the head of the schedule, when every query
\* dispatched to the taxi before it has left the taxi.
PickupInOrder ==
    \A identifier \in QueryIds :
        (query_set[identifier].status = WAITING
         /\ query_set'[identifier].status = RIDING)
            => LET taxi == taxi_set[query_set[identifier].matched_taxi]
               IN  /\ PopsHead(taxi.id)
                   /\ taxi.schedule[1] = query_set[identifier].o_schedule_node
                   /\ taxi.serving_queries = {}

\* A taxi that has dropped off a query and whose next node belongs to a query
\* that is not cancelled goes on: its motion step moves the taxi or pops the
\* node, as long as the vertex of the node can be reached.
GoesOnToNextQuery ==
    \A taxi_id \in DOMAIN taxi_set :
        LET taxi == taxi_set[taxi_id]
        IN  (/\ DrivesNow(taxi_id)
             /\ taxi.schedule # <<>>
             /\ query_set[taxi.schedule[1].query_id].status # CANCELLED
             /\ RouteTarget(taxi) # None
             /\ \E earlier \in QueryIds :
                   /\ earlier # taxi.schedule[1].query_id
                   /\ query_set[earlier].matched_taxi = taxi_id
                   /\ query_set[earlier].status = SATISFIED)
                => \/ taxi_set'[taxi_id].location # taxi.location
                   \/ Len(taxi_set'[taxi_id].schedule) < Len(taxi.schedule)

\* C14: a dispatch to a taxi that holds the nodes of Q1 keeps the route to the
\* head of the schedule; the nodes are served in the order of the schedule,
\* the route leading to the next node after each pop; and after the drop-off
\* of Q1 the taxi goes on to Q2, so that Q2 is satisfied unless cancelled.
C14_ServedInScheduleOrder ==
    [][/\ DispatchKeepsTarget
       /\ PopLeadsToNextNode
       /\ PickupInOrder
       /\ GoesOnToNextQuery]_vars

\* C15 as stated: a taxi with a schedule has a route whose vertex list starts
\* at v_id and ends at the vertex of the head of the schedule, and e_id is an
\* edge of the route.
C15_RouteStartsAtCurrentVertex ==
    \A taxi_id \in DOMAIN taxi_set :
        LET taxi == taxi_set[taxi_id]
        IN  taxi.schedule # <<>>
                => /\ taxi.route # NoRoute
                   /\ taxi.route[1].vertex_list # <<>>
                   /\ taxi.route[1].vertex_list[1] = taxi.v_id
                   /\ RouteTarget(taxi) = taxi.schedule[1].matched_vid
                   /\ taxi.e_id \in Range(taxi.route[1].edge_list)

\* C15 amended: a taxi with a schedule has a route; unless the route is empty
\* (the vertex of the head cannot be reached) its vertex list ends at the
\* vertex of the head and holds v_id; and when the route has edges, e_id is
\* its edge number eid_index and v_id the vertex where that edge starts.
C15_RouteHoldsCurrentVertex ==
    \A taxi_id \in DOMAIN taxi_set :
        LET taxi == taxi_set[taxi_id]
        IN  taxi.schedule # <<>>
                => /\ taxi.route # NoRoute
                   /\ LET vertex_list == taxi.route[1].vertex_list
                          edge_list == taxi.route[1].edge_list
                      IN  /\ vertex_list = <<>> => edge_list = <<>>
                          /\ vertex_list # <<>>
                                 => /\ RouteTarget(taxi) = taxi.schedule[1].matched_vid
                                    /\ taxi.v_id \in Range(vertex_list)
                                    /\ Len(vertex_list) = Len(edge_list) + 1
                          /\ edge_list # <<>>
                                 => /\ taxi.eid_index \in 0..(Len(edge_list) - 1)
                                    /\ taxi.e_id = edge_list[taxi.eid_index + 1]
                                    /\ taxi.v_id = vertex_list[taxi.eid_index + 1]

\* C15 witness: a taxi has passed the first edge of its route and is on the
\* second one; v_id is not the first vertex of the route any more.
C15_Witness ==
    \E taxi_id \in DOMAIN taxi_set :
        LET taxi == taxi_set[taxi_id]
        IN  /\ taxi.schedule # <<>>
            /\ taxi.route # NoRoute
            /\ Len(taxi.route[1].edge_list) >= 2
            /\ taxi.eid_index = 1
            /\ taxi.v_id = taxi.route[1].vertex_list[2]
            /\ taxi.v_id # taxi.route[1].vertex_list[1]

RECURSIVE ReachedWithin(_, _)
\* The vertices reached from the vertices S along at most n edges.
ReachedWithin(S, n) ==
    IF n = 0 THEN S
    ELSE ReachedWithin(
             S \cup UNION {DOMAIN get_vertex(road_network, u).connected_to : u \in S},
             n - 1)

\* The vertices that can be reached from vertex s_vid.
ReachableFrom(s_vid) == ReachedWithin({s_vid}, road_network.num_vertex)

\* The route of the taxi is the empty path of an unreachable target.
StalledUnreachable(taxi) ==
    /\ taxi.schedule # <<>>
    /\ taxi.route = <<Path(<<>>, <<>>, 0)>>

\* The head of the schedule of a taxi that cannot reach it has got the empty
\* path as its route.
UnreachableGivesEmptyPath ==
    \A taxi_id \in DOMAIN taxi_set :
        LET taxi == taxi_set[taxi_id]
        IN  (taxi.schedule # <<>>
             /\ taxi.schedule[1].matched_vid \notin ReachableFrom(taxi.v_id))
                => StalledUnreachable(taxi)

\* The motion step of a taxi with the empty path changes nothing, and a query
\* that rides in such a taxi keeps riding.
StalledStep ==
    \A taxi_id \in DOMAIN taxi_set :
        StalledUnreachable(taxi_set[taxi_id])
            => /\ DrivesNow(taxi_id)
                      => /\ taxi_set' = taxi_set
                         /\ taxi_list' = taxi_list
                         /\ query_set' = query_set
               /\ StalledUnreachable(taxi_set'[taxi_id])
               /\ \A identifier \in taxi_set[taxi_id].serving_queries :
                      /\ query_set[identifier].status = RIDING
                      /\ query_set'[identifier].status = RIDING

C17_EmptyCellGivesNone ==
    (match.state \in {"returned", "raised"}
     /\ Location(match.lat, 1).geohash \notin DOMAIN grid)
        => /\ match.state = "returned"
           /\ match.node = <<ScheduleNode(match.query_id, match.is_origin, None)>>

\* A destination node at the head of a schedule belongs to a query that rides
\* in the taxi.
DestinationHeadRides ==
    \A taxi_id \in DOMAIN taxi_set :
        LET taxi == taxi_set[taxi_id]
        IN  (taxi.schedule # <<>> /\ ~taxi.schedule[1].is_origin)
                => /\ query_set[taxi.schedule[1].query_id].status = RIDING
                   /\ taxi.schedule[1].query_id \in taxi.serving_queries

\* A motion step that pops a destination node finds its query RIDING and in
\* serving_queries and leaves it SATISFIED and out of serving_queries; no
\* other step marks a query SATISFIED.
DestinationPop ==
    /\ \A taxi_id \in DOMAIN taxi_set :
           LET taxi == taxi_set[taxi_id]
           IN  (PopsHead(taxi_id) /\ ~taxi.schedule[1].is_origin)
                   => LET identifier == taxi.schedule[1].query_id
                      IN  /\ query_set[identifier].status = RIDING
                          /\ identifier \in taxi.serving_queries
                          /\ query_set'[identifier].status = SATISFIED
                          /\ taxi_set'[taxi_id].serving_queries
                                 = taxi.serving_queries \ {identifier}
                          /\ taxi_set'[taxi_id].num_riders = taxi.num_riders - 1
    /\ \A identifier \in QueryIds :
           (query_set'[identifier].status = SATISFIED
            /\ query_set[identifier].status # SATISFIED)
               => query_set[identifier].status = RIDING

\* C18: whenever a destination node is popped its query is RIDING and in the
\* serving_queries of the taxi; a destination node never stands at the head
\* for a query that is not RIDING, so no WAITING or CANCELLED query is marked
\* SATISFIED and the removal from serving_queries finds its key.
C18_DestinationOnlyWhenRiding == []DestinationHeadRides /\ [][DestinationPop]_vars

\* C18 witness: a taxi has just popped the destination node of a query: it
\* has driven in this timestep, stands on the vertex of the destination, and
\* the query is SATISFIED and has left serving_queries.
C18_Witness ==
    \E identifier \in QueryIds :
        LET query == query_set[identifier]
        IN  /\ query.status = SATISFIED
            /\ query.matched_taxi # None
            /\ HasDriven(query.matched_taxi)
            /\ taxi_set[query.matched_taxi].v_id = query.d_schedule_node.matched_vid
            /\ identifier \notin taxi_set[query.matched_taxi].serving_queries
            /\ completed_queries # <<>>
            /\ completed_queries[Len(completed_queries)] = identifier

\* C19: after any sequence of add_vertex and add_edge calls both endpoints of
\* every edge of edge_set are keys of vertex_set, and num_vertex and num_edge
\* are the sizes of vertex_set and edge_set.
C19_EndpointsAndCounts ==
    /\ \A e_id \in DOMAIN network.edge_set :
           /\ network.edge_set[e_id].start_vid \in DOMAIN network.vertex_set
           /\ network.edge_set[e_id].end_vid \in DOMAIN network.vertex_set
    /\ network.num_vertex = Cardinality(DOMAIN network.vertex_set)
    /\ network.num_edge = Cardinality(DOMAIN network.edge_set)

\* C19 witness: add_edge has created an endpoint that add_vertex never gave
\* coordinates, and another vertex has its coordinates from add_vertex.
C19_Witness ==
    /\ \E e_id \in DOMAIN network.edge_set :
           network.vertex_set[network.edge_set[e_id].end_vid].location.geohash
               = LocationNone.geohash
    /\ \E v_id \in DOMAIN network.vertex_set :
           network.vertex_set[v_id].location.geohash # LocationNone.geohash
    /\ network.num_vertex = MaxVid

\* C20: after any sequence of add_vertex and add_edge calls the adjacency
\* maps agree with the edge set: vertex u has connected_to[v] = e exactly
\* when edge e with start_vid u and end_vid v is in edge_set.
C20_AdjacencyAgreesWithEdges ==
    \A u \in DOMAIN network.vertex_set, v \in 1..MaxVid, e \in 1..MaxEid :
        (/\ v \in DOMAIN network.vertex_set[u].connected_to
         /\ network.vertex_set[u].connected_to[v] = e)
            <=> (/\ e \in DOMAIN network.edge_set
                 /\ network.edge_set[e].start_vid = u
                 /\ network.edge_set[e].end_vid = v)

\* The searches of the pair of vertices that have returned.
Returned(fields) == {f \in fields : search[f] # <<>>}

RECURSIVE ReachedIn(_, _, _)
\* The vertices of rn that directed edges of edge_set lead to from S in at
\* most n steps.
ReachedIn(rn, S, n) ==
    IF n = 0 THEN S
    ELSE ReachedIn(rn,
             S \cup {rn.edge_set[e].end_vid :
                        e \in {x \in DOMAIN rn.edge_set : rn.edge_set[x].start_vid \in S}},
             n - 1)

Reachable(rn, s_vid, e_vid) == e_vid \in ReachedIn(rn, {s_vid}, rn.num_vertex)

EmptyPath(path) ==
    path.vertex_list = <<>> /\ path.edge_list = <<>> /\ path.distance = 0

RECURSIVE ShortestWithin(_, _, _, _)
\* The smallest total weight of a walk of at most n edges of edge_set from
\* s_vid to v, inf when there is none.
ShortestWithin(rn, s_vid, v, n) ==
    IF n = 0 THEN (IF v = s_vid THEN 0 ELSE inf)
    ELSE SetMin({ShortestWithin(rn, s_vid, v, n - 1)} \cup
                {ShortestWithin(rn, s_vid, rn.edge_set[e].start_vid, n - 1)
                     + rn.edge_set[e].weight :
                        e \in {x \in DOMAIN rn.edge_set : rn.edge_set[x].end_vid = v}})

Shortest(rn, s_vid, e_vid) == ShortestWithin(rn, s_vid, e_vid, rn.num_vertex)

\* No edge is shorter than the straight distance of its two vertices.
NoShortcut(rn) ==
    \A e \in DOMAIN rn.edge_set :
        rn.edge_set[e].weight
            >= get_straight_distance(rn, rn.edge_set[e].start_vid, rn.edge_set[e].end_vid)

BothOptimal ==
    (/\ Returned({"dijkstra", "astar"}) = {"dijkstra", "astar"}
     /\ Reachable(network, search.s_vid, search.e_vid))
        => /\ search.astar[1].distance = search.dijkstra[1].distance
           /\ search.astar[1].distance = Shortest(network, search.s_vid, search.e_vid)

SingleSourceAgrees ==
    Returned({"single_source", "astar"}) = {"single_source", "astar"}
        => /\ search.single_source[1].distance = search.astar[1].distance
           /\ EmptyPath(search.single_source[1]) <=> EmptyPath(search.astar[1])

SortedProjection(list, row, field) ==
    /\ Len(list) = Cardinality(DOMAIN row)
    /\ {list[k][1] : k \in 1..Len(list)} = DOMAIN row
    /\ \A k \in 1..Len(list) : list[k][2] = row[list[k][1]][field]
    /\ \A k \in 1..(Len(list) - 1) : list[k][2] <= list[k + 1][2]

\* C24: after construct_static_list the spatial_grid_list and the
\* temporal_grid_list of every cell i hold exactly one entry (j, d_ij) resp.
\* (j, t_ij) for every cell j of row i of the matrix, cell i included, in
\* ascending order of the value.
C24_StaticListsSortedRows ==
    index.state = "static"
        => \A i \in DOMAIN index.grid :
               /\ i \in DOMAIN index.grid_distance_matrix[i]
               /\ SortedProjection(index.grid[i].spatial_grid_list,
                                   index.grid_distance_matrix[i], "d")
               /\ SortedProjection(index.grid[i].temporal_grid_list,
                                   index.grid_distance_matrix[i], "t")

\* C24 witness: the lists are built, and the temporal list of a cell has
\* before the cell itself no entry but behind it a cell that comes before it
\* in the row, with a cell that no path leads to among the entries.
C24_Witness ==
    /\ index.state = "static"
    /\ \E i \in DOMAIN index.grid :
           LET list == index.grid[i].temporal_grid_list
               keys == GridKeys(index.grid)
           IN  /\ list[1][1] = i
               /\ keys[1] # i
               /\ \E k \in 2..Len(list) : list[k][1] = keys[1]
               /\ \E k \in 2..Len(list) :
                      ~Reachable(network, index.grid[i].anchor,
                                 index.grid[list[k][1]].anchor)

\* geo_encode has returned precision characters of BASE32.
BaseChars ==
    (geo.arith = "exact" /\ geo.state \in {"encoded", "decoded", "again"})
        => /\ Len(geo.geohash) = geo.precision
           /\ \A c \in 1..Len(geo.geohash) : geo.geohash[c] \in Range(BASE32)

\* The geohash of the decoded point is the geohash of the point.
RoundTrip == geo.state = "again" => geo.again = geo.geohash

\* C25 as stated: for every point in range and every precision P, geo_encode
\* returns exactly P characters of BASE32, and the geohash of the point that
\* geo_decode returns for it is the same geohash.
C25_GeohashRoundTrip == BaseChars /\ RoundTrip

\* C25 amended: the same for every precision P up to 20.
C25_GeohashRoundTripTo20 == BaseChars /\ (geo.precision <= 20 => RoundTrip)

\* C25 witness: a point on the upper border of its cell at the precision of
\* the simulation; the decoded point is another point, with the same geohash.
C25_Witness ==
    /\ geo.state = "again"
    /\ geo.precision = PRECISION
    /\ geo.geohash # geo_encode(geo.lat + 1, geo.lon, geo.precision)
    /\ geo.decoded2[1] # 2 * geo.lat
    /\ geo.again = geo.geohash

\* The ids of the queries of a priority queue.
QueuedIds(queue) == {e[2] : e \in queue}

\* A query of a later timestamp waits in the arrival queue and nowhere else.
NotEarlier ==
    \A identifier \in QueryIds :
        query_set[identifier].timestamp > timestamp
            => /\ <<query_set[identifier].timestamp, identifier>> \in query_queue
               /\ identifier \notin QueuedIds(work_queue)
               /\ identifier \notin Range(failed_queries)
               /\ query_set[identifier].matched_taxi = None

\* Step 1 of a timestep moves the queries of this timestamp, and no other
\* entry, from the arrival queue to the work queue.
IngestStep ==
    (pc = "ingest" /\ pc' # pc)
        => LET arrived == {identifier \in QueryIds :
                              query_set[identifier].timestamp = timestamp}
           IN  /\ arrived \subseteq QueuedIds(query_queue)
               /\ QueuedIds(work_queue') = QueuedIds(work_queue) \cup arrived
               /\ query_queue' = {e \in query_queue : e[2] \notin arrived}
               /\ \A e \in query_queue' :
                      e[1] > timestamp /\ e[1] = query_set[e[2]].timestamp

\* When the work queue of a timestep has been processed, every query that
\* has arrived has left the arrival queue and the work queue.
AttemptedInTimestep ==
    (pc = "process" /\ pc' # pc)
        => \A identifier \in QueryIds :
               query_set[identifier].timestamp <= timestamp
                   => /\ identifier \notin QueuedIds(query_queue)
                      /\ identifier \notin QueuedIds(work_queue)

\* C26: every query is put into the work queue, and so gets its first
\* dispatch attempt, in the timestep equal to its timestamp, never earlier or
\* later; after step 1 of timestep t the arrival queue holds no query with
\* timestamp <= t, and a query put back on the peek stays in the arrival
\* queue once.
C26_IngestedInOwnTimestep ==
    []NotEarlier /\ [][IngestStep /\ AttemptedInTimestep]_vars

\* C26 witness: step 1 of the first timestep has put a query into the work
\* queue and has put a query of a later timestamp back.
C26_Witness ==
    /\ timestamp = SIM_START_TIME
    /\ pc = "drain"
    /\ \E e \in work_queue : e[1] = timestamp
    /\ \E e \in query_queue : e[1] > timestamp /\ e[1] <= SIM_END_TIME

\* While the work queue is processed, a query whose dispatch has failed is
\* not in it.
FailedOutOfWork ==
    pc \in {"process", "drive"}
        => Range(failed_queries) \cap QueuedIds(work_queue) = {}

\* A step of the loop over the work queue takes one query out of it and puts
\* none into it: a cancelled query is recorded, another one is dispatched
\* and is then matched and waiting, or it is the last of failed_queries.
ProcessStep ==
    (pc = "process" /\ work_queue' # work_queue)
        => \E e \in work_queue :
               /\ work_queue' = work_queue \ {e}
               /\ IF query_set[e[2]].status = CANCELLED
                  THEN /\ cancelled_queries' = Append(cancelled_queries, e[2])
                       /\ failed_queries' = failed_queries
                  ELSE \/ /\ query_set'[e[2]].matched_taxi # None
                          /\ e[2] \in waiting_queries'
                          /\ failed_queries' = failed_queries
                       \/ /\ query_set'[e[2]].matched_taxi = None
                          /\ failed_queries' = Append(failed_queries, e[2])

\* Step 2 of a timestep empties failed_queries into the work queue, and the
\* failed queries of a timestep are those that step 2 of the next one finds.
DrainStep ==
    /\ (pc = "drain" /\ pc' # pc)
           => /\ failed_queries' = <<>>
              /\ QueuedIds(work_queue') = QueuedIds(work_queue) \cup Range(failed_queries)
    /\ (pc \in {"drive", "ingest"}) => failed_queries' = failed_queries

\* The loop over the work queue ends with the work queue empty.
WorkDone == (pc = "process" /\ pc' # pc) => work_queue = {}

\* C27: a query whose dispatch fails in timestep t is not attempted again in
\* timestep t and is processed again in timestep t + 1, by a dispatch attempt
\* or by being recorded as cancelled; failed_queries is empty once step 2 of
\* a timestep has run.
C27_FailedRetriedNextTimestep ==
    []FailedOutOfWork /\ [][ProcessStep /\ DrainStep /\ WorkDone]_vars

\* C27 witness: a query that failed in an earlier timestep has failed again
\* while the work queue still holds a query.
C27_Witness ==
    /\ pc = "process"
    /\ work_queue # {}
    /\ \E identifier \in Range(failed_queries) :
           /\ query_set[identifier].timestamp < timestamp
           /\ query_set[identifier].waiting_time > 0

\* The number of schedule nodes of a query in a schedule.
NodesOf(schedule, identifier) ==
    Cardinality({i \in DOMAIN schedule : schedule[i].query_id = identifier})

\* The timestep lies in the pickup window of the query, which is not cancelled.
InPickupWindow(identifier) ==
    /\ query_set[identifier].status # CANCELLED
    /\ query_set[identifier].timestamp <= timestamp
    /\ timestamp <= query_set[identifier].pickup_window.late

\* A step that sets matched_taxi or appends nodes of a query to a schedule is
\* a step of the loop over the work queue, taken in the pickup window.
MatchedInWindow ==
    \A identifier \in DOMAIN query_set :
        (\/ query_set'[identifier].matched_taxi # query_set[identifier].matched_taxi
         \/ \E taxi_id \in TaxiIds :
                NodesOf(taxi_set'[taxi_id].schedule, identifier)
                    > NodesOf(taxi_set[taxi_id].schedule, identifier))
            => pc = "process" /\ InPickupWindow(identifier)

\* A query taken from the work queue after its pickup window, or cancelled,
\* gets no taxi.
LateFails ==
    \A e \in work_queue :
        (pc = "process" /\ work_queue' = work_queue \ {e} /\ ~InPickupWindow(e[2]))
            => /\ query_set' = query_set
               /\ taxi_set' = taxi_set
               /\ waiting_queries' = waiting_queries

\* C28: no dispatch attempt made after pickup_window.late succeeds:
\* matched_taxi is only set, and nodes of a query are only appended to a
\* schedule, at a timestep within [timestamp, pickup_window.late], and a
\* cancelled query is never dispatched.
C28_NoDispatchAfterWindow == [][MatchedInWindow /\ LateFails]_vars

\* C28 witness: one query has been matched, and another one, not cancelled,
\* has failed at a timestep after its pickup window.
C28_Witness ==
    /\ pc = "process"
    /\ \E identifier \in DOMAIN query_set :
           query_set[identifier].matched_taxi # None
    /\ \E identifier \in Range(failed_queries) :
           /\ query_set[identifier].status # CANCELLED
           /\ timestamp > query_set[identifier].pickup_window.late

\* A step of the loop over the work queue gives the taxi, whose schedule was
\* empty, a route with edges.
GivenNewRoute(taxi_id) ==
    /\ pc = "process"
    /\ taxi_set[taxi_id].schedule = <<>>
    /\ taxi_set'[taxi_id].schedule # <<>>
    /\ taxi_set'[taxi_id].route # NoRoute
    /\ Len(taxi_set'[taxi_id].route[1].edge_list) > 0

\* C29: after a successful dispatch that gives a taxi with an empty schedule
\* a new route, the taxi lists of the cells along the new route hold the
\* predicted arrival times of the taxi before the taxis advance.
C29_IndexUpdatedOnDispatch ==
    [][\A taxi_id \in TaxiIds :
           GivenNewRoute(taxi_id)
               => taxi_list' = update_taxi_list(taxi_list', timestamp,
                                                taxi_set'[taxi_id],
                                                taxi_set'[taxi_id].route,
                                                road_network)]_vars

\* The cell of a vertex of the road network.
CellOf(v_id) == get_vertex(road_network, v_id).location.geohash

\* The end vertex of the i-th edge of a path.
EndOf(path, i) == get_edge(road_network, path.edge_list[i]).end_vid

\* The i-th edge of a path ends in another cell than the vertex visited
\* before it.
Crossing(path, i) ==
    CellOf(EndOf(path, i))
        # CellOf(IF i = 1 THEN path.vertex_list[1] ELSE EndOf(path, i - 1))

RECURSIVE WeightUpTo(_, _)
\* The sum of the weights of the first i edges of a path.
WeightUpTo(path, i) ==
    IF i = 0 THEN 0
    ELSE WeightUpTo(path, i - 1) + get_edge(road_network, path.edge_list[i]).weight

\* The edges of the route of the taxi that cross into the cell g.
CrossingsInto(route, g) ==
    IF route = NoRoute THEN {}
    ELSE {i \in 1..Len(route[1].edge_list) :
             Crossing(route[1], i) /\ CellOf(EndOf(route[1], i)) = g}

\* The step changes the taxi list of the cell g as the call for the taxi
\* taxi_index with its route wants it.
CellUpdated(g) ==
    LET taxi == taxi_set[taxi_index]
        into == CrossingsInto(taxi.route, g)
        last == CHOOSE i \in into : \A j \in into : j <= i
    IN  IF into = {} THEN taxi_list'[g] = taxi_list[g]
        ELSE /\ DOMAIN taxi_list'[g] = DOMAIN taxi_list[g] \cup {taxi.id}
             /\ \A identifier \in DOMAIN taxi_list[g] \ {taxi.id} :
                    taxi_list'[g][identifier] = taxi_list[g][identifier]
             /\ taxi_list'[g][taxi.id] * AVERAGE_SPEED
                    = timestamp * AVERAGE_SPEED + WeightUpTo(taxi.route[1], last)

\* C30: update_taxi_list sets, for each edge of the route whose end vertex
\* lies in another cell than the vertex visited before, the entry of the taxi
\* in that cell to timestamp + (weight of the route up to that edge) /
\* AVERAGE_SPEED; it writes no other entry, removes none, and changes
\* nothing when the route is None or has no edges.
C30_UpdateTaxiListWrites ==
    [][pc = "update"
           => /\ DOMAIN taxi_list' = DOMAIN taxi_list
              /\ \A g \in DOMAIN taxi_list : CellUpdated(g)]_vars

\* C30 witness: the call has been made with a route that crosses into two
\* cells, and the taxi is expected in both later than now.
C30_Witness ==
    /\ pc = "updated"
    /\ \E g1, g2 \in DOMAIN taxi_list :
           /\ g1 # g2
           /\ CrossingsInto(taxi_set[taxi_index].route, g1) # {}
           /\ CrossingsInto(taxi_set[taxi_index].route, g2) # {}
           /\ taxi_list[g1][taxi_index] > timestamp
           /\ taxi_list[g2][taxi_index] > taxi_list[g1][taxi_index]

\* Every taxi is in the taxi list of the cell of its geohash, at the start
\* with the value start_time.
RegisteredInOwnCell ==
    \A taxi_id \in TaxiIds :
        /\ taxi_set[taxi_id].geohash \in DOMAIN taxi_list
        /\ taxi_id \in DOMAIN taxi_list[taxi_set[taxi_id].geohash]
        /\ pc = "init" => taxi_list[taxi_set[taxi_id].geohash][taxi_id] = SIM_START_TIME

\* A step that changes the geohash of a taxi finds the taxi in the list of the
\* old cell and leaves it in the list of the new cell with the timestamp; the
\* old cell keeps an entry only when the route computed in the step leads
\* into it.
MovedBetweenCells ==
    \A taxi_id \in TaxiIds :
        LET old == taxi_set[taxi_id].geohash
            new == taxi_set'[taxi_id].geohash
        IN  old # new
                => /\ pc = "drive"
                   /\ taxi_id \in DOMAIN taxi_list[old]
                   /\ taxi_id \in DOMAIN taxi_list'[new]
                   /\ taxi_list'[new][taxi_id] = timestamp
                   /\ \/ taxi_id \notin DOMAIN taxi_list'[old]
                      \/ /\ taxi_set'[taxi_id].route # taxi_set[taxi_id].route
                         /\ CrossingsInto(taxi_set'[taxi_id].route, old) # {}

\* C31: every taxi's id is a key of the taxi_list of the cell of its geohash,
\* initially with value start_time; a motion step that changes the geohash
\* removes the taxi from the old cell's list, where it is, and inserts it
\* into the new cell's list with the current timestamp.
C31_TaxiInListOfOwnCell == []RegisteredInOwnCell /\ [][MovedBetweenCells]_vars

\* C31 witness: a taxi has just moved into another cell than the one it
\* started in, and is no longer in the list of that one.
C31_Witness ==
    \E taxi_id \in TaxiIds :
        /\ taxi_set[taxi_id].geohash # TaxiSet0[taxi_id].geohash
        /\ taxi_list[taxi_set[taxi_id].geohash][taxi_id] = timestamp
        /\ taxi_id \notin DOMAIN taxi_list[TaxiSet0[taxi_id].geohash]

\* The cells the route of a taxi still has ahead: those of the end vertices
\* of the current edge and of the edges after it.
CellsAhead(taxi) ==
    IF taxi.route = NoRoute \/ Len(taxi.route[1].edge_list) = 0 THEN {}
    ELSE {CellOf(EndOf(taxi.route[1], i)) :
             i \in (taxi.eid_index + 1)..Len(taxi.route[1].edge_list)}

\* C32: an entry of a taxi in the taxi_list of another cell than its current
\* one exists only if the current route of the taxi still has that cell
\* ahead; a taxi without a route is registered in its current cell only.
C32_NoStalePrediction ==
    \A taxi_id \in TaxiIds : \A g \in DOMAIN taxi_list :
        (g # taxi_set[taxi_id].geohash /\ taxi_id \in DOMAIN taxi_list[g])
            => g \in CellsAhead(taxi_set[taxi_id])

\* C32 witness: a taxi that has completed a route into another cell is
\* registered in one cell, and another taxi is expected in a cell ahead.
C32_Witness ==
    /\ \E taxi_id \in TaxiIds :
           /\ taxi_set[taxi_id].route = NoRoute
           /\ taxi_set[taxi_id].geohash # TaxiSet0[taxi_id].geohash
           /\ \A g \in DOMAIN taxi_list :
                  taxi_id \in DOMAIN taxi_list[g] <=> g = taxi_set[taxi_id].geohash
    /\ \E taxi_id \in TaxiIds : \E g \in DOMAIN taxi_list :
           /\ g # taxi_set[taxi_id].geohash
           /\ taxi_id \in DOMAIN taxi_list[g]

\* The step is the status update of a timestep.
StatusUpdateStep == pc = "process" /\ pc' = "drive"

\* waiting_time grows by 1 in the status update of a timestep from the
\* timestamp of the query on, when the query is WAITING, and changes in no
\* other step.
WaitingTimeCounts ==
    \A identifier \in QueryIds :
        query_set'[identifier].waiting_time
            = IF /\ StatusUpdateStep
                 /\ query_set[identifier].timestamp <= timestamp
                 /\ query_set[identifier].status = WAITING
              THEN query_set[identifier].waiting_time + 1
              ELSE query_set[identifier].waiting_time

\* A query picked up in this step has waited from its timestamp to now.
PickedUpAfterWaiting ==
    \A identifier \in QueryIds :
        (query_set[identifier].status = WAITING
         /\ query_set'[identifier].status = RIDING)
            => query_set'[identifier].waiting_time
                   = timestamp - query_set[identifier].timestamp + 1

\* A cancelled query has waited PATIENCE + 2 timesteps.
CancelledAfterPatience ==
    \A identifier \in QueryIds :
        query_set[identifier].status = CANCELLED
            => query_set[identifier].waiting_time = PATIENCE + 2

\* C33: waiting_time of a query is incremented by exactly 1 in each timestep
\* t >= timestamp in which the query is WAITING at the status update and
\* never changes otherwise; a query picked up in timestep tp has
\* waiting_time = tp - timestamp + 1 and a cancelled query has
\* waiting_time = PATIENCE + 2.
C33_WaitingTime ==
    []CancelledAfterPatience /\ [][WaitingTimeCounts /\ PickedUpAfterWaiting]_vars

\* C33 witness: one query has been picked up after more than one timestep of
\* waiting and another one has been cancelled after being matched.
C33_Witness ==
    /\ \E identifier \in QueryIds :
           /\ query_set[identifier].status \in {RIDING, SATISFIED}
           /\ query_set[identifier].waiting_time > 1
    /\ \E identifier \in QueryIds :
           /\ query_set[identifier].status = CANCELLED
           /\ query_set[identifier].matched_taxi # None

\* The status update of timestep t has run.
UpdatedIn(t) == timestamp > t \/ (timestamp = t /\ pc = "drive")

\* C34: for every query with pickup_window.late + 1 <= SIM_END_TIME, matched
\* or not, the status is RIDING, SATISFIED or CANCELLED from the status
\* update of timestep pickup_window.late + 1 on.
C34_NotWaitingAfterWindow ==
    \A identifier \in QueryIds :
        LET late == query_set[identifier].pickup_window.late
        IN  (late + 1 <= SIM_END_TIME /\ UpdatedIn(late + 1))
                => query_set[identifier].status \in {RIDING, SATISFIED, CANCELLED}

\* C34 witness: at the end of timestep pickup_window.late + 1 a matched query
\* that no taxi has picked up is cancelled, and so is an unmatched one.
C34_Witness ==
    /\ pc = "drive"
    /\ taxi_index > Cardinality(TaxiIds)
    /\ \E identifier \in QueryIds :
           /\ timestamp = query_set[identifier].pickup_window.late + 1
           /\ query_set[identifier].matched_taxi # None
           /\ query_set[identifier].status = CANCELLED
    /\ \E identifier \in QueryIds :
           /\ timestamp >= query_set[identifier].pickup_window.late + 1
           /\ query_set[identifier].matched_taxi = None
           /\ query_set[identifier].status = CANCELLED

\* The number of times a query is in a list of queries.
TimesIn(list, identifier) ==
    Cardinality({i \in DOMAIN list : list[i] = identifier})

\* waiting_queries holds only queries that are matched and WAITING.
WaitingAreMatchedAndWaiting ==
    \A identifier \in waiting_queries :
        /\ query_set[identifier].matched_taxi # None
        /\ query_set[identifier].status = WAITING

\* cancelled_queries holds cancelled queries only, each once, none of them in
\* waiting_queries.
CancelledListedOnce ==
    \A identifier \in Range(cancelled_queries) :
        /\ query_set[identifier].status = CANCELLED
        /\ TimesIn(cancelled_queries, identifier) = 1
        /\ identifier \notin waiting_queries

\* When the simulation has ended, every query that was cancelled before its
\* last timestep is in cancelled_queries.
CancelledAllListed ==
    pc = "done"
        => \A identifier \in QueryIds :
               (/\ query_set[identifier].status = CANCELLED
                /\ query_set[identifier].pickup_window.late + 1 < SIM_END_TIME)
                   => identifier \in Range(cancelled_queries)

\* C35: every query whose status becomes CANCELLED, matched before or not, is
\* appended exactly once to cancelled_queries and is then not in
\* waiting_queries; waiting_queries only ever holds queries that are matched
\* and still WAITING.
C35_CancelledAreRecorded ==
    WaitingAreMatchedAndWaiting /\ CancelledListedOnce /\ CancelledAllListed

\* The number of times a schedule node is in the schedules of the taxis
\* other than the taxi keep, and in the schedule of keep.
TimesScheduledElsewhere(node, keep) ==
    Cardinality({pos \in {<<taxi_id, i>> : taxi_id \in TaxiIds \ {keep}, i \in 1..(2 * NumQueries)} :
                    /\ pos[2] <= Len(taxi_set[pos[1]].schedule)
                    /\ taxi_set[pos[1]].schedule[pos[2]] = node})

TimesScheduledBy(node, taxi_id) ==
    Cardinality({i \in DOMAIN taxi_set[taxi_id].schedule :
                    taxi_set[taxi_id].schedule[i] = node})

\* A matched query is in neither failed_queries nor the work queue, and its
\* nodes are in the schedule of its taxi only, at most once each; the nodes
\* of an unmatched query are in no schedule.
MatchedOnce ==
    \A identifier \in QueryIds :
        LET query == query_set[identifier]
        IN  IF query.matched_taxi = None
            THEN \A taxi_id \in TaxiIds :
                     NodesOf(taxi_set[taxi_id].schedule, identifier) = 0
            ELSE /\ identifier \notin Range(failed_queries)
                 /\ identifier \notin QueuedIds(work_queue)
                 /\ identifier \notin QueuedIds(query_queue)
                 /\ TimesScheduledElsewhere(query.o_schedule_node, query.matched_taxi) = 0
                 /\ TimesScheduledElsewhere(query.d_schedule_node, query.matched_taxi) = 0
                 /\ TimesScheduledBy(query.o_schedule_node, query.matched_taxi) <= 1
                 /\ TimesScheduledBy(query.d_schedule_node, query.matched_taxi) <= 1

\* Once set, matched_taxi does not change.
MatchKept ==
    \A identifier \in QueryIds :
        query_set[identifier].matched_taxi # None
            => query_set'[identifier].matched_taxi = query_set[identifier].matched_taxi

\* C36: a query is successfully dispatched at most once: matched_taxi, once
\* set, never changes, the query never re-enters failed_queries or the work
\* queue, and its origin and destination nodes are in the schedule of at most
\* one taxi, at most once each.
C36_DispatchedAtMostOnce == []MatchedOnce /\ [][MatchKept]_vars

\* C36 witness: a query matched in an earlier timestep has its two nodes in
\* the schedule of its taxi while the work queue of a later timestep holds a
\* query.
C36_Witness ==
    /\ pc = "process"
    /\ work_queue # {}
    /\ \E identifier \in QueryIds :
           LET query == query_set[identifier]
           IN  /\ query.matched_taxi # None
               /\ query.waiting_time > 0
               /\ identifier \in waiting_queries
               /\ TimesScheduledBy(query.o_schedule_node, query.matched_taxi) = 1
               /\ TimesScheduledBy(query.d_schedule_node, query.matched_taxi) = 1

\* completed_queries holds the satisfied queries, each once.
CompletedAreSatisfied ==
    /\ Range(completed_queries)
           = {identifier \in QueryIds : query_set[identifier].status = SATISFIED}
    /\ \A identifier \in Range(completed_queries) :
           TimesIn(completed_queries, identifier) = 1

\* A step that pops the destination node of a query appends the query to
\* completed_queries, and no other step changes completed_queries.
CompletedAtDropoff ==
    /\ \A taxi_id \in TaxiIds :
           (PopsHead(taxi_id) /\ ~taxi_set[taxi_id].schedule[1].is_origin)
               => completed_queries'
                      = Append(completed_queries, taxi_set[taxi_id].schedule[1].query_id)
    /\ completed_queries' # completed_queries
           => \E taxi_id \in TaxiIds :
                  PopsHead(taxi_id) /\ ~taxi_set[taxi_id].schedule[1].is_origin

\* C37: completed_queries contains exactly the queries whose status is
\* SATISFIED, each exactly once, in the order of their dropoffs; a query is
\* appended in the motion step in which its destination node is popped.
C37_CompletedInDropoffOrder == []CompletedAreSatisfied /\ [][CompletedAtDropoff]_vars

\* C37 witness: two queries have been dropped off.
C37_Witness == Len(completed_queries) >= 2

\* The taxi has no route to drive.
NothingToDrive(taxi) ==
    taxi.route = NoRoute \/ Len(taxi.route[1].edge_list) = 0

\* C38: a motion step of a taxi whose route is None or has an empty edge
\* list changes nothing: the taxi, every query, the collections of the
\* dispatcher and all taxi lists are unchanged.
C38_IdleDriveChangesNothing ==
    [][\A taxi_id \in TaxiIds :
           (DrivesNow(taxi_id) /\ NothingToDrive(taxi_set[taxi_id]))
               => /\ taxi_set' = taxi_set
                  /\ query_set' = query_set
                  /\ taxi_list' = taxi_list
                  /\ UNCHANGED <<query_queue, work_queue, failed_queries,
                                 waiting_queries, completed_queries,
                                 cancelled_queries>>]_vars

\* C38 witness: a taxi without a route and a taxi whose route has no edge but
\* whose schedule is not empty have had their motion step.
C38_Witness ==
    /\ pc = "drive"
    /\ taxi_index > Cardinality(TaxiIds)
    /\ \E taxi_id \in TaxiIds : taxi_set[taxi_id].route = NoRoute
    /\ \E taxi_id \in TaxiIds :
           /\ taxi_set[taxi_id].route # NoRoute
           /\ Len(taxi_set[taxi_id].route[1].edge_list) = 0
           /\ taxi_set[taxi_id].schedule # <<>>

\* The edge the taxi drives on.
CurrentEdge(taxi) == get_edge(road_network, taxi.e_id)

\* The distance of the taxi from the start vertex of its edge.
EdgeOffset(taxi) ==
    get_distance(get_vertex(road_network, CurrentEdge(taxi).start_vid).location,
                 taxi.location)

\* A taxi with a route to drive is closer than the weight of its edge to the
\* start vertex of the edge: at the weight it has reached the end vertex.
OnEdgeBeforeEnd ==
    pc = "motion"
        => \A taxi_id \in TaxiIds :
               ~NothingToDrive(taxi_set[taxi_id])
                   => EdgeOffset(taxi_set[taxi_id]) < CurrentEdge(taxi_set[taxi_id]).weight

\* A motion step of a taxi with a route to drive adds speed * TIME_STEP to
\* driving_distance; the taxi stays on its edge at the tentative position if
\* that is closer than the weight of the edge to its start vertex, and
\* otherwise stands on the end vertex, on the next edge of its route or with
\* the head of its schedule popped.
MotionRule ==
    (pc = "motion" /\ timestamp' # timestamp
     /\ ~NothingToDrive(taxi_set[taxi_index]))
        => LET taxi == taxi_set[taxi_index]
               after == taxi_set'[taxi_index]
               d == taxi.speed * TIME_STEP
               end_vertex == get_vertex(road_network, CurrentEdge(taxi).end_vid)
               tentative == end_pos(taxi.location,
                                    bearing(taxi.location, end_vertex.location), d)
               last == taxi.eid_index = Len(taxi.route[1].edge_list) - 1
           IN  /\ after.driving_distance = taxi.driving_distance + d
               /\ IF EdgeOffset([taxi EXCEPT !.location = tentative])
                         < CurrentEdge(taxi).weight
                  THEN /\ after.location = tentative
                       /\ after.v_id = taxi.v_id
                       /\ after.e_id = taxi.e_id
                       /\ after.schedule = taxi.schedule
                  ELSE /\ after.location = end_vertex.location
                       /\ after.v_id = CurrentEdge(taxi).end_vid
                       /\ IF last
                          THEN Len(after.schedule) < Len(taxi.schedule)
                          ELSE /\ after.e_id = taxi.route[1].edge_list[taxi.eid_index + 2]
                               /\ after.schedule = taxi.schedule

\* C39: in one motion step a taxi with a non-empty route adds
\* speed * TIME_STEP to driving_distance and advances along at most one edge,
\* staying on the edge while the tentative position is closer than the edge
\* weight to the start vertex and snapping to the end vertex otherwise; from
\* the start vertex of a straight edge of weight w it reaches the end vertex
\* on the first step k with k * speed * TIME_STEP >= w.
C39_MotionStep == []OnEdgeBeforeEnd /\ [][MotionRule]_vars

RECURSIVE WeightOfEdges(_, _)
\* The sum of the weights of the edges of edge_list in edge_set.
WeightOfEdges(rn, edge_list) ==
    IF edge_list = <<>> THEN 0
    ELSE rn.edge_set[Head(edge_list)].weight + WeightOfEdges(rn, Tail(edge_list))

WellFormed(rn, path, s_vid, e_vid) ==
    /\ Head(path.vertex_list) = s_vid
    /\ path.vertex_list[Len(path.vertex_list)] = e_vid
    /\ Len(path.edge_list) = Len(path.vertex_list) - 1
    /\ \A i \in 1..Len(path.edge_list) :
          /\ path.edge_list[i] \in DOMAIN rn.edge_set
          /\ rn.edge_set[path.edge_list[i]].start_vid = path.vertex_list[i]
          /\ rn.edge_set[path.edge_list[i]].end_vid = path.vertex_list[i + 1]
    /\ path.distance = WeightOfEdges(rn, path.edge_list)

=============================================================================
